---- MODULE Spec2Model ----
(***************************************************************************)
(* build-pulse: the ingestion and analysis pipeline (pull, parse, purge,   *)
(* cluster) over its relational cache, as a state machine.                 *)
(*                                                                         *)
(* Text is a sequence of one-character strings.  A regex is a sequence of  *)
(* characters in which "." matches any one character.  A 64-bit hash is    *)
(* modelled by the value that is fed to the hasher (collision free).       *)
(***************************************************************************)
EXTENDS Integers, Sequences, FiniteSets, Bags, TLC

\* ------------------------------------------------------------------------
\* Bounds
\* ------------------------------------------------------------------------
MaxBuild == 2
MaxHistory == 2
MaxInvocations == 2
MaxText == 4
MaxPattern == 2
MaxCatalog == 2
MaxCalls == 2
MaxDepth == 1
MaxTokens == 6
MaxChars == 3

\* ------------------------------------------------------------------------
\* Generic helpers
\* ------------------------------------------------------------------------
\* Option<T>: None is the empty tuple, Some(v) the one-element tuple
None == <<>>

Some(v) == <<v>>

Min2(x, y) == IF x <= y THEN x ELSE y

Max2(x, y) == IF x >= y THEN x ELSE y

MaxOf(S) == CHOOSE x \in S : \A y \in S : y <= x

Range(s) == {s[i] : i \in 1..Len(s)}

SubText(s, start, end) == [i \in 1..(end - start) |-> s[start + i]]

RECURSIVE SetToSortedSeq(_)
SetToSortedSeq(S) ==
    IF S = {} THEN <<>>
    ELSE LET m == CHOOSE x \in S : \A y \in S : x <= y
         IN <<m>> \o SetToSortedSeq(S \ {m})

RECURSIVE Perms(_)
Perms(S) ==
    IF S = {} THEN {<<>>}
    ELSE UNION {{<<x>> \o p : p \in Perms(S \ {x})} : x \in S}

RECURSIVE Flatten(_)
Flatten(ss) == IF ss = <<>> THEN <<>> ELSE Head(ss) \o Flatten(Tail(ss))

\* ------------------------------------------------------------------------
\* parse.rs: regex matching, findings of one tag in one field
\* ------------------------------------------------------------------------
MatchesAt(pattern, text, pos) ==
    /\ pos + Len(pattern) <= Len(text)
    /\ \A k \in 1..Len(pattern) : pattern[k] = "." \/ pattern[k] = text[pos + k]

\* Regex::find_iter: leftmost, non-overlapping matches as half-open ranges
RECURSIVE find_iter(_, _, _)
find_iter(pattern, text, pos) ==
    IF pos + Len(pattern) > Len(text) \/ Len(pattern) = 0 THEN <<>>
    ELSE IF MatchesAt(pattern, text, pos)
         THEN <<[start |-> pos, end |-> pos + Len(pattern)]>>
                  \o find_iter(pattern, text, pos + Len(pattern))
         ELSE find_iter(pattern, text, pos + 1)

is_match(pattern, text) == find_iter(pattern, text, 0) # <<>>

\* grep_tags without the filter on `from`
grep_tags_any_field(catalog, text, from) ==
    SelectSeq([i \in 1..Len(catalog) |-> i],
              LAMBDA i : is_match(catalog[i].pattern, text))

\* TagSet::grep_tags: indices of the catalog tags whose regex matches the
\* field and whose `from` is the field kind, in catalog order
grep_tags(catalog, text, from) ==
    SelectSeq([i \in 1..Len(catalog) |-> i],
              LAMBDA i : is_match(catalog[i].pattern, text) /\ catalog[i].from = from)

\* or_insert(1) in place of or_insert(0)
HmEntryFromOne(hm, i) ==
    IF \E k \in 1..Len(hm) : hm[k].issue.snippet = i.snippet
                             /\ hm[k].issue.tag_id = i.tag_id
    THEN [k \in 1..Len(hm) |->
            IF hm[k].issue.snippet = i.snippet /\ hm[k].issue.tag_id = i.tag_id
            THEN [hm[k] EXCEPT !.d = @ + 1] ELSE hm[k]]
    ELSE Append(hm, [issue |-> i, d |-> 1])

\* hm.entry(i).and_modify(|e| *e += 1).or_insert(0): hm is the sequence of
\* the entries [issue, d] in the order of their insertion; the key of an
\* entry is the Issue (snippet text, tag_id, duplicates = 0) first inserted
HmEntry(hm, i) ==
    IF \E k \in 1..Len(hm) : hm[k].issue.snippet = i.snippet
                             /\ hm[k].issue.tag_id = i.tag_id
    THEN [k \in 1..Len(hm) |->
            IF hm[k].issue.snippet = i.snippet /\ hm[k].issue.tag_id = i.tag_id
            THEN [hm[k] EXCEPT !.d = @ + 1] ELSE hm[k]]
    ELSE Append(hm, [issue |-> i, d |-> 0])

\* the for_each of grep_issue over the matches ms[k..]
RECURSIVE GrepFold(_, _, _, _, _)
GrepFold(ms, k, tag_id, text, hm) ==
    IF k > Len(ms) THEN hm
    ELSE GrepFold(ms, k + 1, tag_id, text,
                  HmEntry(hm, [snippet |-> SubText(text, ms[k].start, ms[k].end),
                               start |-> ms[k].start, end |-> ms[k].end,
                               tag_id |-> tag_id, duplicates |-> 0]))

\* the HashMap of grep_issue after the for_each, duplicates filled in
grep_issue_map(pattern, tag_id, text) ==
    LET hm == GrepFold(find_iter(pattern, text, 0), 1, tag_id, text, <<>>)
    IN [k \in 1..Len(hm) |-> [hm[k].issue EXCEPT !.duplicates = hm[k].d]]

\* InDatabase<Tag>::grep_issue: the issues of the HashMap, which yields them
\* in an unspecified order
grep_issue(pattern, tag_id, text) == Range(grep_issue_map(pattern, tag_id, text))

\* char::len_utf8 over the characters the model uses: "a" and "b" are
\* ASCII, "U+00E9" is a character encoded in two bytes
utf8(c) == IF c = "U+00E9" THEN <<"C3", "A9">> ELSE <<c>>

\* str::len: the length of a string in bytes
RECURSIVE str_len(_)
str_len(s) == IF s = <<>> THEN 0 ELSE Len(utf8(Head(s))) + str_len(Tail(s))

\* levenshtein_distance: the inner loop over b for one character c1 of a.
\* v1 is the row (v1[k + 1] here is v1[k] in the code), v0 the saved
\* substitution cost.
RECURSIVE LevInner(_, _, _, _, _)
LevInner(v1, v0, c1, b, j) ==
    IF j > Len(b) THEN v1
    ELSE LET delete_cost == v1[j] + 1
             insert_cost == v1[j + 1] + 1
             substitution_cost == IF c1 = b[j] THEN v0 ELSE v0 + 1
         IN LevInner([v1 EXCEPT ![j + 1] =
                          Min2(Min2(delete_cost, insert_cost), substitution_cost)],
                     v1[j + 1], c1, b, j + 1)

RECURSIVE LevOuter(_, _, _, _)
LevOuter(v1, a, b, i) ==
    IF i > Len(a) THEN v1
    ELSE LevOuter(LevInner([v1 EXCEPT ![1] = i], v1[1], a[i], b, 1), a, b, i + 1)

\* b.len() and a.len() count bytes, a.chars() and b.chars() iterate characters
levenshtein_distance(a, b) ==
    LET b_len == str_len(b)
    IN IF b_len = 0 THEN str_len(a)
       ELSE LevOuter([k \in 1..(b_len + 1) |-> k - 1], a, b, 1)[b_len + 1]

\* Config::threshold: tau is given by -ln(tau) = num / den
\* (tau = exp(-3/5), about 0.549).
threshold == [num |-> 3, den |-> 5]

\* normalized_levenshtein_distance(a, b) > threshold, in exact arithmetic:
\* 1 / exp(d / (m - d)) > tau  iff  d / (m - d) < -ln(tau).
\* d = m = 0 gives 0/0 = NaN and d = m > 0 gives 1/exp(inf) = 0: both
\* comparisons are false.
ExceedsThreshold(a, b) ==
    LET d == levenshtein_distance(a, b)
        m == Max2(str_len(a), str_len(b))
    IN IF m - d = 0 THEN FALSE
       ELSE d * threshold.den < threshold.num * (m - d)

\* ------------------------------------------------------------------------
\* db/: tables are sets of rows; similarities is a bag of
\* (similarity_hash, issue_id) rows, its id column is never read
\* ------------------------------------------------------------------------
\* INTEGER PRIMARY KEY without AUTOINCREMENT: largest rowid in the table + 1
NextId(table) == IF table = {} THEN 1 ELSE MaxOf({r.id : r \in table}) + 1

\* DELETE FROM similarities WHERE similarity_hash IN hs
BagWithout(B, hs) == [x \in {y \in DOMAIN B : y.similarity_hash \notin hs} |-> B[x]]

BagSize(B) == BagCardinality(B)

EmptyDB ==
    [jobs |-> {}, builds |-> {}, runs |-> {}, artifacts |-> {},
     issues |-> {}, tags |-> {}, similarities |-> EmptyBag]

\* Job::upsert: ON CONFLICT(name) DO UPDATE SET last_build
JobUpsert(table, x) ==
    IF \E r \in table : r.name = x.name
    THEN {IF r.name = x.name THEN [r EXCEPT !.last_build = x.last_build] ELSE r
          : r \in table}
    ELSE table \cup {[id |-> NextId(table), name |-> x.name, url |-> x.url,
                      last_build |-> x.last_build]}

\* Job::select_one_by_name (query_one: exactly one row, else an error)
select_one_by_name(table, name) ==
    LET m == {r \in table : r.name = name}
    IN IF Cardinality(m) = 1 THEN Some((CHOOSE r \in m : TRUE).id) ELSE None

\* JobBuild::upsert: ON CONFLICT(url) DO UPDATE SET status, number,
\* timestamp, job_id
BuildUpsert(table, x) ==
    IF \E r \in table : r.url = x.url
    THEN {IF r.url = x.url
          THEN [r EXCEPT !.status = x.status, !.number = x.number,
                         !.timestamp = x.timestamp, !.job_id = x.job_id]
          ELSE r : r \in table}
    ELSE table \cup {[id |-> NextId(table), url |-> x.url, status |-> x.status,
                      number |-> x.number, timestamp |-> x.timestamp,
                      job_id |-> x.job_id]}

\* JobBuild::select_one_by_job
select_one_by_job(table, job_id, number) ==
    LET m == {r \in table : r.job_id = job_id /\ r.number = number}
    IN IF Cardinality(m) = 1 THEN Some((CHOOSE r \in m : TRUE).id) ELSE None

\* INSERT OR REPLACE in place of ON CONFLICT DO UPDATE: the row under the
\* key is deleted and a new row is inserted
RunReplace(table, x) ==
    LET rest == {r \in table : r.url # x.url}
    IN rest \cup {[id |-> NextId(table), url |-> x.url, status |-> x.status,
                   display_name |-> x.display_name, log |-> x.log,
                   tag_schema |-> x.tag_schema, build_id |-> x.build_id]}

\* Run::upsert: ON CONFLICT(url) DO UPDATE SET status, display_name, log,
\* tag_schema, build_id
RunUpsert(table, x) ==
    IF \E r \in table : r.url = x.url
    THEN {IF r.url = x.url
          THEN [r EXCEPT !.status = x.status, !.display_name = x.display_name,
                         !.log = x.log, !.tag_schema = x.tag_schema,
                         !.build_id = x.build_id]
          ELSE r : r \in table}
    ELSE table \cup {[id |-> NextId(table), url |-> x.url, status |-> x.status,
                      display_name |-> x.display_name, log |-> x.log,
                      tag_schema |-> x.tag_schema, build_id |-> x.build_id]}

\* Run::select_one_by_url
select_one_by_url(table, url) ==
    LET m == {r \in table : r.url = url}
    IN IF Cardinality(m) = 1 THEN Some((CHOOSE r \in m : TRUE).id) ELSE None

\* TagInfo::upsert: ON CONFLICT(name) DO UPDATE SET desc, field, severity
TagUpsert(table, x) ==
    IF \E r \in table : r.name = x.name
    THEN {IF r.name = x.name
          THEN [r EXCEPT !.desc = x.desc, !.field = x.field,
                         !.severity = x.severity]
          ELSE r : r \in table}
    ELSE table \cup {[id |-> NextId(table), name |-> x.name, desc |-> x.desc,
                      field |-> x.field, severity |-> x.severity]}

\* TagInfo::select_by_name
select_by_name(table, name) ==
    LET m == {r \in table : r.name = name}
    IN IF Cardinality(m) = 1 THEN Some((CHOOSE r \in m : TRUE).id) ELSE None

\* Tag of a catalog entry as a TagInfo value
TagInfoOf(t) ==
    [name |-> t.name, desc |-> t.desc, field |-> t.from, severity |-> t.severity]

\* TagInfo::upsert_tag_set: upsert every catalog tag in order; the result is
\* the table and the row id of every catalog tag
RECURSIVE upsert_tag_set(_, _, _)
upsert_tag_set(table, catalog, ids) ==
    IF Len(ids) = Len(catalog) THEN [tags |-> table, ids |-> ids]
    ELSE LET t == catalog[Len(ids) + 1]
             table2 == TagUpsert(table, TagInfoOf(t))
         IN upsert_tag_set(table2, catalog,
                           Append(ids, select_by_name(table2, t.name)[1]))

\* a fingerprint that also folds in the severity of every tag
schema_with_severity(catalog) ==
    [i \in 1..Len(catalog) |-> <<catalog[i].name, catalog[i].pattern,
                                 catalog[i].from, catalog[i].severity>>]

\* TagSet::schema: Tag::hash feeds name, regex source and `from` of every
\* tag, in catalog order
schema(catalog) ==
    [i \in 1..Len(catalog) |-> <<catalog[i].name, catalog[i].pattern, catalog[i].from>>]

\* hashes of the similarity rows joined to an issue of one of the runs rids
HashesOfRuns(D, rids) ==
    {s.similarity_hash : s \in
        {s \in BagToSet(D.similarities) :
            \E i \in D.issues : i.id = s.issue_id /\ i.run_id \in rids}}

\* purge below the runs rids: the similarity rows by hash, then the issues
PurgeIssuesOfRuns(D, rids) ==
    [D EXCEPT !.similarities = BagWithout(@, HashesOfRuns(D, rids)),
              !.issues = {i \in @ : i.run_id \notin rids}]

\* the comparison with the current fingerprint left out
StaleOrCurrent(r, current_schema) == r.tag_schema # None

\* a WHERE clause that selects no run
NeverStale(r, current_schema) == FALSE

\* the WHERE clause of IssueInfo::delete_all_invalid_by_tag_schema:
\* `tag_schema != ?` is never true of a NULL tag_schema
Stale(r, current_schema) == r.tag_schema # None /\ r.tag_schema # Some(current_schema)

\* IssueInfo::delete_all_invalid_by_tag_schema.  The result is the store and
\* the number of rows the last statement (the UPDATE) changed.
delete_all_invalid_by_tag_schema(D, current_schema) ==
    LET D2 == PurgeIssuesOfRuns(D, {r.id : r \in {r \in D.runs :
                                                     Stale(r, current_schema)}})
    IN [db |-> [D2 EXCEPT !.runs =
                   {IF Stale(r, current_schema) THEN [r EXCEPT !.tag_schema = None]
                    ELSE r : r \in @}],
        count |-> Cardinality({r \in D.runs : Stale(r, current_schema)})]

\* ids of the runs below the builds bids (runs JOIN builds)
RunsUnder(D, bids) == {r.id : r \in {r \in D.runs : r.build_id \in bids}}

\* the cascade shared by the blocklist purge and the orphan-build purge:
\* similarities, issues, artifacts, runs, builds
PurgeBuilds(D, bids) ==
    LET rids == RunsUnder(D, bids)
        D2 == PurgeIssuesOfRuns(D, rids)
    IN [D2 EXCEPT !.artifacts = {a \in @ : a.run_id \notin rids},
                  !.runs = {r \in @ : r.id \notin rids},
                  !.builds = {b \in @ : b.id \notin bids}]

\* the join with `WHERE name = ?` left out: the builds of every job
BuildsOfAnyJob(D, name) ==
    {b.id : b \in {b \in D.builds : \E j \in D.jobs : j.id = b.job_id}}

\* ids of the builds of the job called name (builds JOIN jobs)
BuildsOfJob(D, name) ==
    {b.id : b \in {b \in D.builds :
                     \E j \in D.jobs : j.id = b.job_id /\ j.name = name}}

\* `number <= last_build` in place of `number < last_build`
OrphanOrLastBuilds(D) ==
    {b.id : b \in {b \in D.builds :
                     \E j \in D.jobs : /\ j.id = b.job_id
                                       /\ j.last_build # None
                                       /\ b.number <= j.last_build[1]}}

\* ids of the builds older than the last build of their job; `number <
\* last_build` is never true of a NULL last_build
OrphanBuilds(D) ==
    {b.id : b \in {b \in D.builds :
                     \E j \in D.jobs : /\ j.id = b.job_id
                                       /\ j.last_build # None
                                       /\ b.number < j.last_build[1]}}

\* Job::delete_all_by_blocklist: one transaction per name; the result is the
\* store and the sum of the rows deleted from jobs
RECURSIVE delete_all_by_blocklist(_, _, _)
delete_all_by_blocklist(D, names, acc) ==
    IF names = <<>> THEN [db |-> D, count |-> acc]
    ELSE LET name == Head(names)
             D2 == PurgeBuilds(D, BuildsOfJob(D, name))
             D3 == [D2 EXCEPT !.jobs = {j \in @ : j.name # name}]
         IN delete_all_by_blocklist(D3, Tail(names),
                acc + Cardinality({j \in D2.jobs : j.name = name}))

\* JobBuild::delete_all_orphan
delete_all_orphan(D) == PurgeBuilds(D, OrphanBuilds(D))

\* TagInfo::purge_orphans
purge_orphans(D) ==
    [D EXCEPT !.tags = {t \in @ : \E i \in D.issues : i.tag_id = t.id}]

\* the check left out: the parser and what follows it always run
has_untagged_always(D) == TRUE

\* Run::has_untagged
has_untagged(D) == \E r \in D.runs : r.tag_schema = None

\* the UPDATE restricted to the rows that already carry a fingerprint
update_tagged_tag_schema(D, new_schema) ==
    [D EXCEPT !.runs = {IF r.tag_schema # None
                        THEN [r EXCEPT !.tag_schema = new_schema] ELSE r : r \in @}]

\* Run::update_all_tag_schema: UPDATE runs SET tag_schema = ?
update_all_tag_schema(D, new_schema) ==
    [D EXCEPT !.runs = {[r EXCEPT !.tag_schema = new_schema] : r \in @}]

\* ------------------------------------------------------------------------
\* The CI server (api.rs) and the configuration (config.rs)
\* ------------------------------------------------------------------------
JobNames == {"J1", "J2"}

\* order of the jobs in SparseMatrixProject::jobs
JobOrder == <<"J1", "J2">>

\* matrix cells a build of a job runs: the second and later builds of J1
\* rebuild cell b only
Cells(j, n) ==
    IF j = "J1" THEN (IF n = 1 THEN <<"a", "b">> ELSE <<"b">>) ELSE <<"c">>

\* only J1 gets new builds
MaxBuildOf(j) == IF j = "J1" THEN MaxBuild ELSE 1

BuildUrl(j, n) == <<j, n>>

RunUrl(j, n, c) == <<j, n, c>>

Failed == {"FAILURE", "UNSTABLE", "ABORTED"}

\* relative paths of the artifacts the server keeps for a run
ServerArtifacts(url) ==
    IF url[3] = "a" THEN <<<<"l", "o", "g">>, <<"b", "i", "n">>>>
    ELSE <<<<"l", "o", "g">>>>

\* get_full_build: the run behind a ShortBuild url
FullBuild(url) ==
    [url |-> url,
     display_name |-> <<url[3]>>,
     result |-> IF url[2] >= 2 THEN Some("SUCCESS") ELSE Some("FAILURE"),
     artifacts |-> ServerArtifacts(url)]

\* Build::get_console
Console(url) ==
    IF url[3] = "a" THEN <<"e", "x", "a">>
    ELSE IF url[3] = "b" THEN <<"e", "x", "b">>
    ELSE <<"e", "y", "b">>

CatalogA ==
    <<[name |-> "err", desc |-> "d", pattern |-> <<"e", ".", ".">>,
       from |-> "Console", severity |-> "Error"],
      [name |-> "nm", desc |-> "d", pattern |-> <<"a">>,
       from |-> "RunName", severity |-> "Metadata"]>>

CatalogB ==
    <<[name |-> "err", desc |-> "d", pattern |-> <<"e", ".">>,
       from |-> "Console", severity |-> "Error"]>>

Catalogs == {CatalogA, CatalogB}

Blocklists == {<<>>, <<"J2">>}

\* Config::artifact: the path regexes of the artifacts to retrieve
ArtifactConfig == <<[path |-> <<"l", ".", "g">>, post_process |-> None]>>

\* PatternSet::grep_matches: the configs whose regex matches the path
grep_matches(configs, path) ==
    SelectSeq(configs, LAMBDA c : is_match(c.path, path))

\* main.rs: `static RATE_LIMIT: Semaphore = Semaphore::const_new(20)`
RATE_LIMIT == 20

\* the tasks that share one Database handle
Tasks == {"t1", "t2", "t3"}

VARIABLES
    listed,          \* server: names of the jobs the project lists
    latest,          \* server: number of the last build of every job
    jobs, builds, runs, artifacts, issues, tags, similarities,  \* the store
    pc,              \* position of main
    cfg,             \* Config of the running invocation
    tag_ids,         \* row ids of the catalog tags (upsert_tag_set)
    outdated,        \* result of delete_all_invalid_by_tag_schema
    blocked,         \* result of delete_all_by_blocklist
    jobQueue,        \* puller: jobs not yet pulled
    buildStreams,    \* puller: streams of BuildContext, one per pulled job
    runStreams,      \* puller: streams of RunContext, one per pulled build
    pulled,          \* runs emitted by the puller (InDatabase<Run> values)
    fetched,         \* urls requested from the server in this invocation
    handles,         \* parser: tasks of the JoinSet not yet joined
    inserted_issues, \* parser: issues handed to the similarity engine
    groups,          \* similarity engine: the groups of the last clustering
    invocations,     \* number of invocations started
    prev,            \* inputs and row counts of the last finished invocation
    arg,             \* argument of the function under evaluation
    ret,             \* its result
    sent,            \* Database: the messages sent on tx, in order
    received,        \* Database: how many of them blocking_recv returned
    running,         \* Database: the message the worker is calling
    executed,        \* Database: the closures run on the connection
    oneshot,         \* Database: result channel of every message
    caller,          \* the tasks calling Database::call: the message a
                     \* task awaits (0: none) and the results it got
    permits,         \* puller: available permits of RATE_LIMIT
    in_flight,       \* puller: HTTP requests and subprocesses in flight
    pulling,         \* puller: the pull(RunContext) future being polled
    errors           \* puller: the Err items the run stream has yielded

vars ==
    <<listed, latest, jobs, builds, runs, artifacts, issues, tags, similarities,
      pc, cfg, tag_ids, outdated, blocked, jobQueue, buildStreams, runStreams,
      pulled, fetched, handles, inserted_issues, groups, invocations, prev,
      arg, ret, sent, received, running, executed, oneshot, caller,
      permits, in_flight, pulling, errors>>

serverVars == <<listed, latest>>

kernelVars == <<sent, received, running, executed, oneshot, caller>>

runPullVars == <<permits, in_flight, pulling, errors>>

callVars == <<arg, ret, kernelVars, runPullVars>>

pullVars == <<jobQueue, buildStreams, runStreams, pulled, fetched>>

parseVars == <<handles, inserted_issues, groups>>

DB ==
    [jobs |-> jobs, builds |-> builds, runs |-> runs, artifacts |-> artifacts,
     issues |-> issues, tags |-> tags, similarities |-> similarities]

SetDB(D) ==
    /\ jobs' = D.jobs
    /\ builds' = D.builds
    /\ runs' = D.runs
    /\ artifacts' = D.artifacts
    /\ issues' = D.issues
    /\ tags' = D.tags
    /\ similarities' = D.similarities

RowCounts(D) ==
    [jobs |-> Cardinality(D.jobs), builds |-> Cardinality(D.builds),
     runs |-> Cardinality(D.runs), artifacts |-> Cardinality(D.artifacts),
     issues |-> Cardinality(D.issues), tags |-> Cardinality(D.tags),
     similarities |-> BagSize(D.similarities)]

\* SparseJob::builds, most recent first
ServerBuilds(j) == [k \in 1..latest[j] |-> latest[j] - k + 1]

\* SparseBuild::runs: the cells built by build n and, for a cell the build
\* did not rebuild, the entry of the first build's run
ServerRuns(j, n) ==
    [k \in 1..Len(Cells(j, n)) |->
        [url |-> RunUrl(j, n, Cells(j, n)[k]), number |-> n]]
    \o SelectSeq([k \in 1..Len(Cells(j, 1)) |->
                    [url |-> RunUrl(j, 1, Cells(j, 1)[k]), number |-> 1]],
                 LAMBDA mb : mb.url[3] \notin Range(Cells(j, n)))

NoCfg == [catalog |-> <<>>, blocklist |-> <<>>, last_n_history |-> 1]

InitStore ==
    /\ latest = [j \in JobNames |-> 1]
    /\ jobs = {}
    /\ builds = {}
    /\ runs = {}
    /\ artifacts = {}
    /\ issues = {}
    /\ tags = {}
    /\ similarities = EmptyBag
    /\ pc = "idle"
    /\ cfg = NoCfg
    /\ tag_ids = <<>>
    /\ outdated = 0
    /\ blocked = 0
    /\ jobQueue = <<>>
    /\ buildStreams = {}
    /\ runStreams = {}
    /\ pulled = <<>>
    /\ fetched = {}
    /\ handles = {}
    /\ inserted_issues = <<>>
    /\ groups = <<>>
    /\ invocations = 0
    /\ prev = None
    /\ sent = <<>>
    /\ received = 0
    /\ running = None
    /\ executed = <<>>
    /\ oneshot = <<>>
    /\ caller = [t \in Tasks |-> [awaiting |-> 0, got |-> <<>>]]
    /\ permits = RATE_LIMIT
    /\ in_flight = {}
    /\ pulling = None
    /\ errors = <<>>

Init ==
    /\ listed \in {l \in SUBSET JobNames : "J1" \in l}
    /\ InitStore
    /\ arg = None
    /\ ret = None

\* ------------------------------------------------------------------------
\* The server changes between invocations
\* ------------------------------------------------------------------------
ServerNewBuild(j) ==
    /\ pc = "idle"
    /\ latest[j] < MaxBuildOf(j)
    /\ latest' = [latest EXCEPT ![j] = @ + 1]
    /\ UNCHANGED <<callVars, listed, jobs, builds, runs, artifacts, issues, tags, similarities,
                   pc, cfg, tag_ids, outdated, blocked, pullVars, parseVars,
                   invocations, prev>>

ServerList(j) ==
    /\ pc = "idle"
    /\ j \notin listed
    /\ listed' = listed \cup {j}
    /\ UNCHANGED <<callVars, latest, jobs, builds, runs, artifacts, issues, tags, similarities,
                   pc, cfg, tag_ids, outdated, blocked, pullVars, parseVars,
                   invocations, prev>>

ServerUnlist(j) ==
    /\ pc = "idle"
    /\ j \in listed
    /\ listed' = listed \ {j}
    /\ UNCHANGED <<callVars, latest, jobs, builds, runs, artifacts, issues, tags, similarities,
                   pc, cfg, tag_ids, outdated, blocked, pullVars, parseVars,
                   invocations, prev>>

\* ------------------------------------------------------------------------
\* main: start-up, purges
\* ------------------------------------------------------------------------
\* the Config read from the file (the cache is not purged: no --purge-cache)
Start(catalog, blocklist, last_n_history) ==
    /\ pc = "idle"
    /\ invocations < MaxInvocations
    /\ invocations' = invocations + 1
    /\ cfg' = [catalog |-> catalog, blocklist |-> blocklist,
               last_n_history |-> last_n_history]
    /\ pc' = "tags"
    /\ UNCHANGED <<callVars, serverVars, jobs, builds, runs, artifacts, issues, tags,
                   similarities, tag_ids, outdated, blocked, pullVars, parseVars,
                   prev>>

UpsertTagSet ==
    /\ pc = "tags"
    /\ LET r == upsert_tag_set(tags, cfg.catalog, <<>>)
       IN /\ tags' = r.tags
          /\ tag_ids' = r.ids
    /\ pc' = "invalid"
    /\ UNCHANGED <<callVars, serverVars, jobs, builds, runs, artifacts, issues, similarities,
                   cfg, outdated, blocked, pullVars, parseVars, invocations, prev>>

PurgeOutdated ==
    /\ pc = "invalid"
    /\ LET r == delete_all_invalid_by_tag_schema(DB, schema(cfg.catalog))
       IN /\ SetDB(r.db)
          /\ outdated' = r.count
    /\ pc' = "blocklist"
    /\ UNCHANGED <<callVars, serverVars, cfg, tag_ids, blocked, pullVars, parseVars,
                   invocations, prev>>

PurgeBlocklist ==
    /\ pc = "blocklist"
    /\ LET r == delete_all_by_blocklist(DB, cfg.blocklist, 0)
       IN /\ SetDB(r.db)
          /\ blocked' = r.count
    /\ pc' = "pull_jobs"
    /\ UNCHANGED <<callVars, serverVars, cfg, tag_ids, outdated, pullVars, parseVars,
                   invocations, prev>>

\* ------------------------------------------------------------------------
\* main: the puller
\* ------------------------------------------------------------------------
Take(s, n) == SubSeq(s, 1, Min2(n, Len(s)))

\* SparseMatrixProject::pull_jobs
pull_jobs == SelectSeq(JobOrder, LAMBDA j : j \in listed)

\* the blocklist filter left out
AllJobs(project_jobs, blocklist) == project_jobs

\* pull_stream(SparseMatrixProjectContext): the jobs that are not blocklisted
NotBlocked(project_jobs, blocklist) ==
    SelectSeq(project_jobs, LAMBDA j : j \notin Range(blocklist))

PullJobs ==
    /\ pc = "pull_jobs"
    /\ jobQueue' = NotBlocked(pull_jobs, cfg.blocklist)
    /\ pc' = "pull"
    /\ UNCHANGED <<callVars, serverVars, jobs, builds, runs, artifacts, issues, tags,
                   similarities, cfg, tag_ids, outdated, blocked, buildStreams,
                   runStreams, pulled, fetched, parseVars, invocations, prev>>

\* AsJob::as_job: last_build is the number of the job's most recent build
\* (api.rs; the caller in main.rs passes last_n_history, which this as_job
\* does not take)
as_job(j) ==
    [name |-> j, url |-> <<j>>,
     last_build |-> IF ServerBuilds(j) = <<>> THEN None
                    ELSE Some(Head(ServerBuilds(j)))]

\* AsBuild::as_build
as_build(j, n, job_id) ==
    [url |-> BuildUrl(j, n), status |-> Some("FAILURE"), number |-> n,
     timestamp |-> n, job_id |-> job_id]

\* as_run that fetches the console log whatever the status is
as_run_any_status(full_mb, build_id) ==
    [url |-> full_mb.url, status |-> full_mb.result,
     display_name |-> full_mb.display_name,
     log |-> Some(Console(full_mb.url)),
     tag_schema |-> None, build_id |-> build_id]

\* as_run under the id the next build row will get, a build whose upsert
\* has not completed
as_run_unparented(full_mb, build_id) ==
    [url |-> full_mb.url, status |-> full_mb.result,
     display_name |-> full_mb.display_name,
     log |-> IF full_mb.result # None /\ full_mb.result[1] \in Failed
             THEN Some(Console(full_mb.url)) ELSE None,
     tag_schema |-> None, build_id |-> build_id + 1]

\* AsRun::as_run: the console log is requested for a failed run only
as_run(full_mb, build_id) ==
    [url |-> full_mb.url, status |-> full_mb.result,
     display_name |-> full_mb.display_name,
     log |-> IF full_mb.result # None /\ full_mb.result[1] \in Failed
             THEN Some(Console(full_mb.url)) ELSE None,
     tag_schema |-> None, build_id |-> build_id]

\* pull_stream(JobContext): upsert the job, emit its last-n BuildContexts.
\* The streams of the puller are drained in stream order: a job, then its
\* builds, and after each build its runs.
PullJob ==
    /\ pc = "pull"
    /\ jobQueue # <<>>
    /\ buildStreams = {}
    /\ runStreams = {}
    /\ LET j == Head(jobQueue)
           table == JobUpsert(jobs, as_job(j))
           job_id == select_one_by_name(table, j)[1]
           sbs == Take(ServerBuilds(j), cfg.last_n_history)
       IN /\ jobs' = table
          /\ buildStreams' = IF sbs = <<>> THEN buildStreams
                             ELSE buildStreams \cup
                                    {[name |-> j, job_id |-> job_id, sbs |-> sbs]}
    /\ jobQueue' = Tail(jobQueue)
    /\ UNCHANGED <<callVars, serverVars, builds, runs, artifacts, issues, tags, similarities,
                   pc, cfg, tag_ids, outdated, blocked, runStreams, pulled,
                   fetched, parseVars, invocations, prev>>

\* pull_stream(BuildContext): upsert the build, emit the RunContexts of the
\* runs whose number is the build's
PullBuild(bs) ==
    /\ pc = "pull"
    /\ bs \in buildStreams
    /\ runStreams = {}
    /\ LET n == Head(bs.sbs)
           table == BuildUpsert(builds, as_build(bs.name, n, bs.job_id))
           build_id == select_one_by_job(table, bs.job_id, n)[1]
           mbs == SelectSeq(ServerRuns(bs.name, n), LAMBDA mb : mb.number = n)
       IN /\ builds' = table
          /\ runStreams' = IF mbs = <<>> THEN runStreams
                           ELSE runStreams \cup {[build_id |-> build_id, mbs |-> mbs]}
    /\ buildStreams' = (buildStreams \ {bs}) \cup
                         (IF Tail(bs.sbs) = <<>> THEN {}
                          ELSE {[bs EXCEPT !.sbs = Tail(@)]})
    /\ UNCHANGED <<callVars, serverVars, jobs, runs, artifacts, issues, tags, similarities,
                   pc, cfg, tag_ids, outdated, blocked, jobQueue, pulled, fetched,
                   parseVars, invocations, prev>>

RunRow(table, id) == CHOOSE r \in table : r.id = id

\* pull(RunContext): a cached run is emitted as stored; otherwise the full
\* build is fetched and upserted.  The stream that would pull the run's
\* artifacts is built and dropped without being polled, so no artifact is
\* requested or inserted.
PullRun(rs) ==
    /\ pc = "pull"
    /\ rs \in runStreams
    /\ LET mb == Head(rs.mbs)
           hit == select_one_by_url(runs, mb.url)
           table == RunUpsert(runs, as_run(FullBuild(mb.url), rs.build_id))
       IN IF hit # None
          THEN /\ pulled' = Append(pulled, RunRow(runs, hit[1]))
               /\ UNCHANGED <<callVars, runs, fetched>>
          ELSE /\ runs' = table
               /\ fetched' = fetched \cup {mb.url}
               /\ pulled' = Append(pulled,
                                RunRow(table, select_one_by_url(table, mb.url)[1]))
    /\ runStreams' = (runStreams \ {rs}) \cup
                       (IF Tail(rs.mbs) = <<>> THEN {}
                        ELSE {[rs EXCEPT !.mbs = Tail(@)]})
    /\ UNCHANGED <<callVars, serverVars, jobs, builds, artifacts, issues, tags, similarities,
                   pc, cfg, tag_ids, outdated, blocked, jobQueue, buildStreams,
                   parseVars, invocations, prev>>

PullFinished == jobQueue = <<>> /\ buildStreams = {} /\ runStreams = {}

\* ------------------------------------------------------------------------
\* main: the parser
\* ------------------------------------------------------------------------
TagRow(table, id) == CHOOSE t \in table : t.id = id

\* Artifact::select_all_by_run
select_all_by_run(table, run_id) ==
    LET m == {a \in table : a.run_id = run_id}
    IN [k \in 1..Cardinality(m) |->
          CHOOSE a \in m : a.id = SetToSortedSeq({x.id : x \in m})[k]]

\* the field an issue row points into: Console => the run's log,
\* RunName => the display name, Artifact => the artifact's UTF-8 contents;
\* None when the field is missing
FieldOf(D, run, i) ==
    LET field == TagRow(D.tags, i.tag_id).field
    IN IF field = "Console" THEN run.log
       ELSE IF field = "RunName" THEN Some(run.display_name)
       ELSE IF i.artifact_id = None THEN None
       ELSE LET m == {a \in D.artifacts : a.id = i.artifact_id[1] /\ a.utf8}
            IN IF m = {} THEN None ELSE Some((CHOOSE a \in m : TRUE).contents)

\* IssueInfo::into_issue
into_issue(i, field) ==
    [id |-> i.id, snippet |-> SubText(field, i.snippet_start, i.snippet_end),
     tag_id |-> i.tag_id]

\* the stored issues of a run, those of metadata tags included
select_all_with_metadata(D, run) ==
    LET m == {i \in D.issues : i.run_id = run.id}
        ids == SetToSortedSeq({i.id : i \in m})
        row(k) == CHOOSE i \in m : i.id = ids[k]
    IN IF \E i \in m : FieldOf(D, run, i) = None THEN <<>>
       ELSE [k \in 1..Len(ids) |-> into_issue(row(k), FieldOf(D, run, row(k))[1])]

\* the stored non-metadata issues of a run (issues JOIN tags), resolved
\* against the run's fields; an unresolvable row fails the whole query and
\* the caller's flatten() then yields nothing
select_all_not_metadata(D, run) ==
    LET m == {i \in D.issues :
                /\ i.run_id = run.id
                /\ \E t \in D.tags : t.id = i.tag_id /\ t.severity # "Metadata"}
        ids == SetToSortedSeq({i.id : i \in m})
        row(k) == CHOOSE i \in m : i.id = ids[k]
    IN IF \E i \in m : FieldOf(D, run, i) = None THEN <<>>
       ELSE [k \in 1..Len(ids) |-> into_issue(row(k), FieldOf(D, run, row(k))[1])]

\* the issues of the tags `idxs` in one field, tag after tag; the issues of
\* one tag come out of a HashMap, in any order
RECURSIVE TagIssueSeqs(_, _, _, _, _)
TagIssueSeqs(catalog, ids, idxs, text, artifact_id) ==
    IF idxs = <<>> THEN {<<>>}
    ELSE LET t == Head(idxs)
             here == {[issue |-> i, artifact_id |-> artifact_id]
                      : i \in grep_issue(catalog[t].pattern, ids[t], text)}
         IN {p \o rest : p \in Perms(here),
                         rest \in TagIssueSeqs(catalog, ids, Tail(idxs), text,
                                               artifact_id)}

FieldIssueSeqs(catalog, ids, text, from, artifact_id) ==
    TagIssueSeqs(catalog, ids, grep_tags(catalog, text, from), text, artifact_id)

RECURSIVE ArtifactIssueSeqs(_, _, _)
ArtifactIssueSeqs(catalog, ids, arts) ==
    IF arts = <<>> THEN {<<>>}
    ELSE LET a == Head(arts)
             here == IF a.utf8
                     THEN FieldIssueSeqs(catalog, ids, a.contents, "Artifact",
                                         Some(a.id))
                     ELSE {<<>>}
         IN {p \o rest : p \in here,
                         rest \in ArtifactIssueSeqs(catalog, ids, Tail(arts))}

\* the issues one parser task finds: run name, then console, then artifacts
TaskIssueSeqs(catalog, ids, h) ==
    {rn \o co \o ar :
        rn \in FieldIssueSeqs(catalog, ids, h.run.display_name, "RunName", None),
        co \in (IF h.run.log = None THEN {<<>>}
                ELSE FieldIssueSeqs(catalog, ids, h.run.log[1], "Console", None)),
        ar \in ArtifactIssueSeqs(catalog, ids, h.artifacts)}

\* Issue::into_issue_info
into_issue_info(issue, run, artifact_id) ==
    [snippet_start |-> issue.start, snippet_end |-> issue.end, run_id |-> run.id,
     artifact_id |-> artifact_id, tag_id |-> issue.tag_id,
     duplicates |-> issue.duplicates]

\* the try_fold of parse_unprocessed_runs: insert every issue of a task,
\* keep the non-metadata ones for the similarity engine
RECURSIVE InsertIssues(_, _, _, _, _)
InsertIssues(table, tagTable, run, seq, acc) ==
    IF seq = <<>> THEN [issues |-> table, acc |-> acc]
    ELSE LET d == Head(seq)
             id == NextId(table)
             row == [id |-> id] @@ into_issue_info(d.issue, run, d.artifact_id)
             kept == IF TagRow(tagTable, d.issue.tag_id).severity = "Metadata"
                     THEN acc
                     ELSE Append(acc, [id |-> id, snippet |-> d.issue.snippet,
                                       tag_id |-> d.issue.tag_id])
         IN InsertIssues(table \cup {row}, tagTable, run, Tail(seq), kept)

\* parse_unprocessed_runs, up to the collect(): a task per emitted run with
\* tag_schema null; the stored issues of every other run are loaded
ParseSpawn ==
    /\ pc = "pull"
    /\ PullFinished
    /\ has_untagged(DB)
    /\ handles' = {[run |-> pulled[k],
                    artifacts |-> select_all_by_run(artifacts, pulled[k].id)]
                   : k \in {k \in 1..Len(pulled) : pulled[k].tag_schema = None}}
    /\ inserted_issues' =
           Flatten([k \in 1..Len(pulled) |->
                      IF pulled[k].tag_schema = None THEN <<>>
                      ELSE select_all_not_metadata(DB, pulled[k])])
    /\ pc' = "parse"
    /\ UNCHANGED <<callVars, serverVars, jobs, builds, runs, artifacts, issues, tags,
                   similarities, cfg, tag_ids, outdated, blocked, pullVars, groups,
                   invocations, prev>>

\* `if Run::has_untagged` is false: "No runs to process."
NoRunsToProcess ==
    /\ pc = "pull"
    /\ PullFinished
    /\ ~ has_untagged(DB)
    /\ pc' = "done"
    /\ UNCHANGED <<callVars, serverVars, jobs, builds, runs, artifacts, issues, tags,
                   similarities, cfg, tag_ids, outdated, blocked, pullVars,
                   parseVars, invocations, prev>>

\* one turn of `while let Some(h) = handles.join_next()`
ParseJoin(h, seq) ==
    /\ pc = "parse"
    /\ h \in handles
    /\ seq \in TaskIssueSeqs(cfg.catalog, tag_ids, h)
    /\ LET r == InsertIssues(issues, tags, h.run, seq, inserted_issues)
       IN /\ issues' = r.issues
          /\ inserted_issues' = r.acc
    /\ handles' = handles \ {h}
    /\ UNCHANGED <<callVars, serverVars, jobs, builds, runs, artifacts, tags, similarities,
                   pc, cfg, tag_ids, outdated, blocked, pullVars, groups,
                   invocations, prev>>

\* "batch update tag schema for runs afterwards"
ParseFinish ==
    /\ pc = "parse"
    /\ handles = {}
    /\ SetDB(update_all_tag_schema(DB, Some(schema(cfg.catalog))))
    /\ pc' = "orphan"
    /\ UNCHANGED <<callVars, serverVars, cfg, tag_ids, outdated, blocked, pullVars,
                   parseVars, invocations, prev>>

\* ------------------------------------------------------------------------
\* main: purge of old data, similarities
\* ------------------------------------------------------------------------
PurgeOldRuns ==
    /\ pc = "orphan"
    /\ SetDB(delete_all_orphan(DB))
    /\ pc' = "orphan_tags"
    /\ UNCHANGED <<callVars, serverVars, cfg, tag_ids, outdated, blocked, pullVars,
                   parseVars, invocations, prev>>

PurgeExtraneousTags ==
    /\ pc = "orphan_tags"
    /\ SetDB(purge_orphans(DB))
    /\ pc' = "cluster"
    /\ UNCHANGED <<callVars, serverVars, cfg, tag_ids, outdated, blocked, pullVars,
                   parseVars, invocations, prev>>

\* the candidate compared with one member of the group only
FitsAnyMember(issue, g) ==
    \E k \in 1..Len(g) : ExceedsThreshold(issue.snippet, g[k].snippet)

\* does the candidate exceed the threshold against every member of g
FitsGroup(issue, g) ==
    \A k \in 1..Len(g) : ExceedsThreshold(issue.snippet, g[k].snippet)

\* the grouping loop of calculate_similarities: the candidate joins the
\* group whose task is the first to report a fit (any fitting group), or
\* starts a new group; the result is the set of possible groupings
RECURSIVE Cluster(_, _)
Cluster(gs, todo) ==
    IF todo = <<>> THEN {gs}
    ELSE LET issue == Head(todo)
             fits == {i \in 1..Len(gs) : FitsGroup(issue, gs[i])}
         IN IF fits = {} THEN Cluster(Append(gs, <<issue>>), Tail(todo))
            ELSE UNION {Cluster([gs EXCEPT ![i] = Append(@, issue)], Tail(todo))
                        : i \in fits}

\* g.sort(): InDatabase orders by id
RECURSIVE SortInsert(_, _)
SortInsert(x, g) ==
    IF g = <<>> THEN <<x>>
    ELSE IF x.id < Head(g).id THEN <<x>> \o g
    ELSE <<Head(g)>> \o SortInsert(x, Tail(g))

RECURSIVE SortGroup(_)
SortGroup(g) == IF g = <<>> THEN <<>> ELSE SortInsert(Head(g), SortGroup(Tail(g)))

\* hash of a sorted group: the ids of its members
GroupHash(g) == [k \in 1..Len(g) |-> g[k].id]

\* the rows stored for one group: none for a unique issue
GroupRows(g) ==
    IF Len(g) > 1
    THEN [k \in 1..Len(g) |-> [similarity_hash |-> GroupHash(g), issue_id |-> g[k].id]]
    ELSE <<>>

RECURSIVE InsertAll(_, _)
InsertAll(B, rows) ==
    IF rows = <<>> THEN B ELSE InsertAll(B (+) SetToBag({Head(rows)}), Tail(rows))

calculate_similarities(B, gs) ==
    InsertAll(B, Flatten([k \in 1..Len(gs) |-> GroupRows(gs[k])]))

CalculateSimilarities(gs) ==
    /\ pc = "cluster"
    /\ gs \in Cluster(<<>>, inserted_issues)
    /\ groups' = [k \in 1..Len(gs) |-> SortGroup(gs[k])]
    /\ similarities' = calculate_similarities(similarities, groups')
    /\ pc' = "done"
    /\ UNCHANGED <<callVars, serverVars, jobs, builds, runs, artifacts, issues, tags, cfg,
                   tag_ids, outdated, blocked, pullVars, handles, inserted_issues,
                   invocations, prev>>

\* main returns
Exit ==
    /\ pc = "done"
    /\ prev' = Some([listed |-> listed, latest |-> latest,
                     cfg |-> cfg,
                     counts |-> RowCounts(DB)])
    /\ pc' = "idle"
    /\ cfg' = NoCfg
    /\ tag_ids' = <<>>
    /\ outdated' = 0
    /\ blocked' = 0
    /\ pulled' = <<>>
    /\ fetched' = {}
    /\ inserted_issues' = <<>>
    /\ groups' = <<>>
    /\ UNCHANGED <<callVars, serverVars, jobs, builds, runs, artifacts, issues, tags,
                   similarities, jobQueue, buildStreams, runStreams, handles,
                   invocations>>

Next ==
    \/ \E j \in JobNames : ServerNewBuild(j)
    \/ \E j \in JobNames \ {"J1"} : ServerList(j)
    \/ \E j \in JobNames \ {"J1"} : ServerUnlist(j)
    \/ \E catalog \in Catalogs, blocklist \in Blocklists, n \in 1..MaxHistory :
          Start(catalog, blocklist, n)
    \/ UpsertTagSet
    \/ PurgeOutdated
    \/ PurgeBlocklist
    \/ PullJobs
    \/ PullJob
    \/ \E bs \in buildStreams : PullBuild(bs)
    \/ \E rs \in runStreams : PullRun(rs)
    \/ ParseSpawn
    \/ NoRunsToProcess
    \/ \E h \in handles : \E seq \in TaskIssueSeqs(cfg.catalog, tag_ids, h) :
          ParseJoin(h, seq)
    \/ \E gs \in Cluster(<<>>, inserted_issues) : CalculateSimilarities(gs)
    \/ PurgeOldRuns
    \/ PurgeExtraneousTags
    \/ ParseFinish
    \/ Exit

Spec == Init /\ [][Next]_vars

\* ------------------------------------------------------------------------
\* Runs of every status, converted by as_run and upserted
\* ------------------------------------------------------------------------
\* BuildStatus, by its stored encoding
BuildStatuses == {"SUCCESS", "UNSTABLE", "FAILURE", "NOT_BUILT", "ABORTED"}

StatusUrls == {RunUrl("J1", 1, "a"), RunUrl("J1", 1, "b"), RunUrl("J2", 1, "c")}

\* a cache miss of pull(RunContext): the full build has the given result,
\* get_console answers (console_ok) or fails, and the Run is upserted
AsRunUpsert(url, result, console_ok) ==
    /\ LET full_mb == [FullBuild(url) EXCEPT !.result = result]
           run == as_run(full_mb, 1)
           row == IF console_ok THEN run ELSE [run EXCEPT !.log = None]
       IN runs' = RunUpsert(runs, row)
    /\ UNCHANGED <<callVars, serverVars, jobs, builds, artifacts, issues, tags,
                   similarities, pc, cfg, tag_ids, outdated, blocked, pullVars,
                   parseVars, invocations, prev>>

\* the batched UPDATE at the end of the parse phase
StampRuns(catalog) ==
    /\ runs # {}
    /\ SetDB(update_all_tag_schema(DB, Some(schema(catalog))))
    /\ UNCHANGED <<callVars, serverVars, pc, cfg, tag_ids, outdated, blocked,
                   pullVars, parseVars, invocations, prev>>

StatusNext ==
    \/ \E url \in StatusUrls, console_ok \in BOOLEAN,
          result \in {None} \cup {Some(x) : x \in BuildStatuses} :
          AsRunUpsert(url, result, console_ok)
    \/ StampRuns(CatalogB)

StatusSpec == Init /\ [][StatusNext]_vars

\* ------------------------------------------------------------------------
\* pull(ArtifactContext) with a post-process command
\* ------------------------------------------------------------------------
\* Config::artifact with a post_process command on the first entry
PostProcessConfig ==
    <<[path |-> <<"l", ".", "g">>, post_process |-> Some(<<"cmd", "-x">>)],
      [path |-> <<"b", ".", "n">>, post_process |-> None]>>

\* what the operating system makes of the command: it cannot be spawned,
\* the write to its stdin fails, or it exits with a code and an output
Outcomes ==
    {[kind |-> "spawn_failed", code |-> 0, stdout |-> <<>>],
     [kind |-> "io_failed", code |-> 0, stdout |-> <<>>],
     [kind |-> "exited", code |-> 0, stdout |-> <<"o">>],
     [kind |-> "exited", code |-> 1, stdout |-> <<"o">>],
     [kind |-> "exited", code |-> 1, stdout |-> <<>>]}

Blobs == {<<"x">>, <<"y", "z">>}

\* spawn_process: `spawn()?`, `write_all(stdin).await?`, then
\* `Ok(child.wait_with_output().await?.stdout)`; the exit status is not read
spawn_process(outcome) ==
    IF outcome.kind = "exited" THEN [ok |-> TRUE, val |-> outcome.stdout]
    ELSE [ok |-> FALSE, val |-> <<>>]

\* Artifact::insert
ArtifactInsert(table, x) ==
    table \cup {[id |-> NextId(table), path |-> x.path, contents |-> x.contents,
                 run_id |-> x.run_id, utf8 |-> TRUE]}

\* pull(ArtifactContext): the first matching config decides; the contents
\* are the blob or the output of the post-process command; an Err of
\* spawn_process is the Err of the pull and nothing is inserted
pull_artifact(table, run_id, path, blob, outcome) ==
    LET m == grep_matches(PostProcessConfig, path)
        cmd == m[1].post_process
        contents == IF cmd = None \/ cmd[1] = <<>>
                    THEN [ok |-> TRUE, val |-> blob]
                    ELSE spawn_process(outcome)
    IN IF m = <<>> THEN [ok |-> TRUE, id |-> None, artifacts |-> table]
       ELSE IF ~ contents.ok THEN [ok |-> FALSE, id |-> None, artifacts |-> table]
       ELSE [ok |-> TRUE, id |-> Some(NextId(table)),
             artifacts |-> ArtifactInsert(table, [path |-> path,
                                                  contents |-> contents.val,
                                                  run_id |-> run_id])]

PullArtifact(path, blob, outcome) ==
    /\ runs # {}
    /\ Cardinality(artifacts) < MaxCalls
    /\ LET run == CHOOSE r \in runs : TRUE
           r == pull_artifact(artifacts, run.id, path, blob, outcome)
       IN /\ artifacts' = r.artifacts
          /\ arg' = Some([path |-> path, blob |-> blob, outcome |-> outcome])
          /\ ret' = Some([ok |-> r.ok, id |-> r.id])
    /\ UNCHANGED <<kernelVars, runPullVars, serverVars, jobs, builds, runs, issues,
                   tags, similarities, pc, cfg, tag_ids, outdated, blocked, pullVars,
                   parseVars, invocations, prev>>

PostProcessNext ==
    \/ /\ runs = {}
       /\ AsRunUpsert(RunUrl("J1", 1, "a"), Some("FAILURE"), TRUE)
    \/ \E path \in Range(ServerArtifacts(RunUrl("J1", 1, "a"))) \cup {<<"t", "x", "t">>},
          blob \in Blobs, outcome \in Outcomes :
          PullArtifact(path, blob, outcome)

PostProcessSpec == Init /\ [][PostProcessNext]_vars

\* ------------------------------------------------------------------------
\* Invocations between which the severity of a tag is edited
\* ------------------------------------------------------------------------
\* CatalogB with the severity of its tag set to metadata
CatalogM == <<[CatalogB[1] EXCEPT !.severity = "Metadata"]>>

SeverityNext ==
    \/ \E j \in JobNames : ServerNewBuild(j)
    \/ \E catalog \in {CatalogB, CatalogM}, n \in 1..MaxHistory :
          Start(catalog, <<>>, n)
    \/ UpsertTagSet
    \/ PurgeOutdated
    \/ PurgeBlocklist
    \/ PullJobs
    \/ PullJob
    \/ \E bs \in buildStreams : PullBuild(bs)
    \/ \E rs \in runStreams : PullRun(rs)
    \/ ParseSpawn
    \/ NoRunsToProcess
    \/ \E h \in handles : \E seq \in TaskIssueSeqs(cfg.catalog, tag_ids, h) :
          ParseJoin(h, seq)
    \/ \E gs \in Cluster(<<>>, inserted_issues) : CalculateSimilarities(gs)
    \/ PurgeOldRuns
    \/ PurgeExtraneousTags
    \/ ParseFinish
    \/ Exit

SeveritySpec == Init /\ [][SeverityNext]_vars

\* ------------------------------------------------------------------------
\* Invocations in which the request for a run may fail
\* ------------------------------------------------------------------------
\* pull(RunContext) on a cache miss whose get_full_build fails: the Err is
\* the item of the run, nothing is stored for it and the stream goes on
PullRunFails(rs) ==
    /\ pc = "pull"
    /\ rs \in runStreams
    /\ select_one_by_url(runs, Head(rs.mbs).url) = None
    /\ fetched' = fetched \cup {Head(rs.mbs).url}
    /\ runStreams' = (runStreams \ {rs}) \cup
                       (IF Tail(rs.mbs) = <<>> THEN {}
                        ELSE {[rs EXCEPT !.mbs = Tail(@)]})
    /\ UNCHANGED <<callVars, serverVars, jobs, builds, runs, artifacts, issues, tags,
                   similarities, pc, cfg, tag_ids, outdated, blocked, jobQueue,
                   buildStreams, pulled, parseVars, invocations, prev>>

HistoryNext ==
    \/ \E j \in JobNames : ServerNewBuild(j)
    \/ \E n \in 1..MaxHistory : Start(CatalogB, <<>>, n)
    \/ UpsertTagSet
    \/ PurgeOutdated
    \/ PurgeBlocklist
    \/ PullJobs
    \/ PullJob
    \/ \E bs \in buildStreams : PullBuild(bs)
    \/ \E rs \in runStreams : PullRun(rs)
    \/ \E rs \in runStreams : PullRunFails(rs)
    \/ ParseSpawn
    \/ NoRunsToProcess
    \/ \E h \in handles : \E seq \in TaskIssueSeqs(cfg.catalog, tag_ids, h) :
          ParseJoin(h, seq)
    \/ \E gs \in Cluster(<<>>, inserted_issues) : CalculateSimilarities(gs)
    \/ PurgeOldRuns
    \/ PurgeExtraneousTags
    \/ ParseFinish
    \/ Exit

HistorySpec == Init /\ [][HistoryNext]_vars

\* ------------------------------------------------------------------------
\* The purges that run as one transaction, with a statement that fails
\* ------------------------------------------------------------------------
\* the k-th statement of IssueInfo::delete_all_invalid_by_tag_schema
InvalidStatement(D, current_schema, k) ==
    LET rids == {r.id : r \in {r \in D.runs : Stale(r, current_schema)}}
    IN IF k = 1
       THEN [D EXCEPT !.similarities = BagWithout(@, HashesOfRuns(D, rids))]
       ELSE IF k = 2
       THEN [D EXCEPT !.issues = {i \in @ : i.run_id \notin rids}]
       ELSE [D EXCEPT !.runs =
                {IF Stale(r, current_schema) THEN [r EXCEPT !.tag_schema = None]
                 ELSE r : r \in @}]

\* the k-th statement of the transaction of Job::delete_all_by_blocklist
BlocklistStatement(D, name, k) ==
    LET bids == BuildsOfJob(D, name)
        rids == RunsUnder(D, bids)
    IN IF k = 1
       THEN [D EXCEPT !.similarities = BagWithout(@, HashesOfRuns(D, rids))]
       ELSE IF k = 2 THEN [D EXCEPT !.issues = {i \in @ : i.run_id \notin rids}]
       ELSE IF k = 3 THEN [D EXCEPT !.artifacts = {a \in @ : a.run_id \notin rids}]
       ELSE IF k = 4 THEN [D EXCEPT !.runs = {r \in @ : r.id \notin rids}]
       ELSE IF k = 5 THEN [D EXCEPT !.builds = {b \in @ : b.id \notin bids}]
       ELSE [D EXCEPT !.jobs = {j \in @ : j.name # name}]

\* Transaction::drop under tx.set_drop_behavior(DropBehavior::Commit): the
\* `?` of a failed statement drops the transaction, which commits what the
\* statements before it did
DropCommit(before, now) == now

\* the closure of delete_all_invalid_by_tag_schema from statement k on, when
\* statement fail_at returns an error
RECURSIVE InvalidTransaction(_, _, _, _, _)
InvalidTransaction(before, D, current_schema, k, fail_at) ==
    IF k = fail_at THEN DropCommit(before, D)
    ELSE IF k > 3 THEN D
    ELSE InvalidTransaction(before, InvalidStatement(D, current_schema, k),
                            current_schema, k + 1, fail_at)

\* the closure of delete_all_by_blocklist for one name from statement k
\* on, when statement fail_at returns an error
RECURSIVE BlocklistTransaction(_, _, _, _, _)
BlocklistTransaction(before, D, name, k, fail_at) ==
    IF k = fail_at THEN DropCommit(before, D)
    ELSE IF k > 6 THEN D
    ELSE BlocklistTransaction(before, BlocklistStatement(D, name, k), name,
                              k + 1, fail_at)

\* main: `delete_all_invalid_by_tag_schema(..).await?` returns the error of
\* statement k
PurgeOutdatedFails(k) ==
    /\ pc = "invalid"
    /\ SetDB(InvalidTransaction(DB, DB, schema(cfg.catalog), 1, k))
    /\ pc' = "failed"
    /\ UNCHANGED <<callVars, serverVars, cfg, tag_ids, outdated, blocked, pullVars,
                   parseVars, invocations, prev>>

\* main: `delete_all_by_blocklist(..).await?` returns the error of statement
\* k of the transaction of the n-th name; the transactions of the names
\* before it have committed
PurgeBlocklistFails(n, k) ==
    /\ pc = "blocklist"
    /\ LET D == delete_all_by_blocklist(DB, Take(cfg.blocklist, n - 1), 0).db
       IN SetDB(BlocklistTransaction(D, D, cfg.blocklist[n], 1, k))
    /\ pc' = "failed"
    /\ UNCHANGED <<callVars, serverVars, cfg, tag_ids, outdated, blocked, pullVars,
                   parseVars, invocations, prev>>

TxNext ==
    \/ Next
    \/ \E k \in 1..3 : PurgeOutdatedFails(k)
    \/ \E n \in 1..Len(cfg.blocklist), k \in 1..6 : PurgeBlocklistFails(n, k)

TxSpec == Init /\ [][TxNext]_vars

\* ------------------------------------------------------------------------
\* Invocations whose parse phase returns an error
\* ------------------------------------------------------------------------
\* one turn of `while let Some(h) = handles.join_next()` that returns an
\* error through `?` after n issues of the task were inserted (n = 0: the
\* join error of `h?` or the first insert; n = Len(seq): the select_one after
\* the last insert).  main returns the error: the process ends before
\* update_all_tag_schema and the store keeps what was written.
ParseJoinFails(h, seq, n) ==
    /\ pc = "parse"
    /\ h \in handles
    /\ seq \in TaskIssueSeqs(cfg.catalog, tag_ids, h)
    /\ n \in 0..Len(seq)
    /\ issues' = InsertIssues(issues, tags, h.run, Take(seq, n), inserted_issues).issues
    /\ pc' = "idle"
    /\ cfg' = NoCfg
    /\ tag_ids' = <<>>
    /\ outdated' = 0
    /\ blocked' = 0
    /\ pulled' = <<>>
    /\ fetched' = {}
    /\ handles' = {}
    /\ inserted_issues' = <<>>
    /\ groups' = <<>>
    /\ UNCHANGED <<callVars, serverVars, jobs, builds, runs, artifacts, tags,
                   similarities, jobQueue, buildStreams, runStreams,
                   invocations, prev>>

AbortNext ==
    \/ \E blocklist \in Blocklists, n \in 1..MaxHistory :
          Start(CatalogA, blocklist, n)
    \/ UpsertTagSet
    \/ PurgeOutdated
    \/ PurgeBlocklist
    \/ PullJobs
    \/ PullJob
    \/ \E bs \in buildStreams : PullBuild(bs)
    \/ \E rs \in runStreams : PullRun(rs)
    \/ ParseSpawn
    \/ NoRunsToProcess
    \/ \E h \in handles : \E seq \in TaskIssueSeqs(cfg.catalog, tag_ids, h) :
          ParseJoin(h, seq)
    \/ \E h \in handles : \E seq \in TaskIssueSeqs(cfg.catalog, tag_ids, h) :
          \E n \in 0..Len(seq) : ParseJoinFails(h, seq, n)
    \/ \E gs \in Cluster(<<>>, inserted_issues) : CalculateSimilarities(gs)
    \/ PurgeOldRuns
    \/ PurgeExtraneousTags
    \/ ParseFinish
    \/ Exit

AbortSpec == Init /\ [][AbortNext]_vars

\* ------------------------------------------------------------------------
\* The pull of the runs, request by request, with requests and upserts
\* that fail
\* ------------------------------------------------------------------------
\* the consumer of the run stream stops at the first Err item
polls_until_error(errs) == errs = <<>>

\* pull_build_logs: the consumer of the run stream keeps polling after an
\* Err item and reports the first error at the end
polls(errs) == TRUE

\* the stream has ended or its consumer has stopped polling it
PullEnded ==
    /\ pc = "pull"
    /\ pulling = None
    /\ PullFinished \/ ~ polls(errors)

\* pull(RunContext) up to the first await that leaves the process: a cached
\* run is emitted as stored; otherwise mb.get_full_build is requested.  No
\* permit is acquired: rate_limit! is used nowhere.
PullRunPoll(rs) ==
    /\ pc = "pull"
    /\ rs \in runStreams
    /\ pulling = None
    /\ polls(errors)
    /\ LET mb == Head(rs.mbs)
           hit == select_one_by_url(runs, mb.url)
       IN IF hit # None
          THEN /\ pulled' = Append(pulled, RunRow(runs, hit[1]))
               /\ UNCHANGED <<fetched, pulling, in_flight>>
          ELSE /\ fetched' = fetched \cup {mb.url}
               /\ pulling' = Some([url |-> mb.url, build_id |-> rs.build_id,
                                   step |-> "get_full_build", log |-> None])
               /\ in_flight' = in_flight \cup {<<"get_full_build", mb.url>>}
               /\ UNCHANGED pulled
    /\ runStreams' = (runStreams \ {rs}) \cup
                       (IF Tail(rs.mbs) = <<>> THEN {}
                        ELSE {[rs EXCEPT !.mbs = Tail(@)]})
    /\ UNCHANGED <<arg, ret, kernelVars, permits, errors, serverVars, jobs,
                   builds, runs, artifacts, issues, tags, similarities, pc, cfg,
                   tag_ids, outdated, blocked, jobQueue, buildStreams,
                   parseVars, invocations, prev>>

\* the answer to get_full_build: a transport error ends the pull of the run
\* with Err; otherwise as_run requests the console log of a failed run
FullBuildResponse(ok) ==
    /\ pc = "pull"
    /\ pulling # None
    /\ pulling[1].step = "get_full_build"
    /\ LET url == pulling[1].url
           failed == /\ FullBuild(url).result # None
                     /\ FullBuild(url).result[1] \in Failed
       IN IF ~ ok
          THEN /\ errors' = Append(errors, [url |-> url, kind |-> "transport",
                                            after |-> Len(pulled)])
               /\ pulling' = None
               /\ in_flight' = in_flight \ {<<"get_full_build", url>>}
          ELSE /\ pulling' = Some([pulling[1] EXCEPT !.step =
                                      IF failed THEN "get_console" ELSE "upsert"])
               /\ in_flight' = (in_flight \ {<<"get_full_build", url>>}) \cup
                                  (IF failed THEN {<<"get_console", url>>} ELSE {})
               /\ UNCHANGED errors
    /\ UNCHANGED <<arg, ret, kernelVars, permits, serverVars, jobs, builds, runs,
                   artifacts, issues, tags, similarities, pc, cfg, tag_ids,
                   outdated, blocked, pullVars, parseVars, invocations, prev>>

\* the answer to get_console, were its error propagated with `?`: the pull
\* of the run ends with Err
ConsoleResponseAborts(ok) ==
    /\ pc = "pull"
    /\ pulling # None
    /\ pulling[1].step = "get_console"
    /\ IF ok
       THEN /\ pulling' = Some([pulling[1] EXCEPT
                                 !.step = "upsert",
                                 !.log = Some(Console(pulling[1].url))])
            /\ UNCHANGED errors
       ELSE /\ pulling' = None
            /\ errors' = Append(errors, [url |-> pulling[1].url,
                                         kind |-> "transport",
                                         after |-> Len(pulled)])
    /\ in_flight' = in_flight \ {<<"get_console", pulling[1].url>>}
    /\ UNCHANGED <<arg, ret, kernelVars, permits, serverVars, jobs,
                   builds, runs, artifacts, issues, tags, similarities, pc, cfg,
                   tag_ids, outdated, blocked, pullVars, parseVars, invocations,
                   prev>>

\* the answer to get_console: an error is logged and leaves the log None
ConsoleResponse(ok) ==
    /\ pc = "pull"
    /\ pulling # None
    /\ pulling[1].step = "get_console"
    /\ pulling' = Some([pulling[1] EXCEPT
                          !.step = "upsert",
                          !.log = IF ok THEN Some(Console(pulling[1].url))
                                  ELSE None])
    /\ in_flight' = in_flight \ {<<"get_console", pulling[1].url>>}
    /\ UNCHANGED <<arg, ret, kernelVars, permits, errors, serverVars, jobs,
                   builds, runs, artifacts, issues, tags, similarities, pc, cfg,
                   tag_ids, outdated, blocked, pullVars, parseVars, invocations,
                   prev>>

\* `.upsert(&self.db).await?` and the rest of pull(RunContext): a storage
\* error ends the pull of the run with Err; otherwise the artifact stream is
\* built and dropped unpolled and the run is emitted
RunUpsertReturn(ok) ==
    /\ pc = "pull"
    /\ pulling # None
    /\ pulling[1].step = "upsert"
    /\ LET url == pulling[1].url
           table == RunUpsert(runs, [as_run(FullBuild(url), pulling[1].build_id)
                                      EXCEPT !.log = pulling[1].log])
       IN IF ok
          THEN /\ runs' = table
               /\ pulled' = Append(pulled,
                                RunRow(table, select_one_by_url(table, url)[1]))
               /\ UNCHANGED errors
          ELSE /\ errors' = Append(errors, [url |-> url, kind |-> "storage",
                                            after |-> Len(pulled)])
               /\ UNCHANGED <<runs, pulled>>
    /\ pulling' = None
    /\ UNCHANGED <<arg, ret, kernelVars, permits, in_flight, serverVars, jobs,
                   builds, artifacts, issues, tags, similarities, pc, cfg,
                   tag_ids, outdated, blocked, jobQueue, buildStreams,
                   runStreams, fetched, parseVars, invocations, prev>>

\* one invocation up to the end of the pull; the job and build streams are
\* polled only while no pull(RunContext) is pending (TryStreamExt::and_then)
PullNext ==
    \/ \E j \in JobNames : ServerNewBuild(j)
    \/ \E blocklist \in Blocklists, n \in 1..MaxHistory :
          Start(CatalogA, blocklist, n)
    \/ UpsertTagSet
    \/ PurgeOutdated
    \/ PurgeBlocklist
    \/ PullJobs
    \/ pulling = None /\ polls(errors) /\ PullJob
    \/ pulling = None /\ polls(errors) /\ \E bs \in buildStreams : PullBuild(bs)
    \/ \E rs \in runStreams : PullRunPoll(rs)
    \/ \E ok \in BOOLEAN : FullBuildResponse(ok)
    \/ \E ok \in BOOLEAN : ConsoleResponse(ok)
    \/ \E ok \in BOOLEAN : RunUpsertReturn(ok)

PullSpec == Init /\ [][PullNext]_vars

\* ------------------------------------------------------------------------
\* The upserts as functions of one table: UpsertSpec applies them, and the
\* row deletes of the purges, to one table in any order
\* ------------------------------------------------------------------------
\* row id of the job a SparseJob is stored under
JobIdOf(j) == IF j = "J1" THEN 1 ELSE 2

\* values the puller upserts
JobInputs ==
    {[name |-> j, url |-> <<j>>, last_build |-> lb] :
        j \in JobNames, lb \in {None} \cup {Some(n) : n \in 1..MaxBuild}}

BuildInputs ==
    UNION {{[url |-> BuildUrl(j, n), status |-> Some(st), number |-> n,
             timestamp |-> n, job_id |-> JobIdOf(j)] :
               n \in 1..MaxBuildOf(j), st \in {"SUCCESS", "FAILURE"}}
           : j \in JobNames}

RunInputs ==
    UNION {{as_run([url |-> RunUrl(b.url[1], b.number, c),
                    display_name |-> <<c>>, result |-> Some(st)], b.number) :
               c \in Range(Cells(b.url[1], b.number)),
               st \in {"SUCCESS", "FAILURE"}}
           : b \in BuildInputs}

TagInputs ==
    {[name |-> n, desc |-> "d", field |-> f, severity |-> sv] :
        n \in {"err", "nm"}, f \in {"Console", "RunName"},
        sv \in {"Error", "Metadata"}}

\* an INSERT is taken while the row ids stay within the number of keys
Fits(table, present, keys) == present \/ NextId(table) <= Cardinality(keys)

UpsertInit ==
    /\ Init
    /\ listed = {"J1"}

UpsertStart(table) ==
    /\ pc = "idle"
    /\ pc' = table
    /\ UNCHANGED <<callVars, serverVars, jobs, builds, runs, artifacts, issues, tags,
                   similarities, cfg, tag_ids, outdated, blocked, pullVars,
                   parseVars, invocations, prev>>

UpsertJob(x) ==
    /\ pc = "jobs"
    /\ Fits(jobs, select_one_by_name(jobs, x.name) # None,
            {y.name : y \in JobInputs})
    /\ jobs' = JobUpsert(jobs, x)
    /\ UNCHANGED <<callVars, serverVars, builds, runs, artifacts, issues, tags,
                   similarities, pc, cfg, tag_ids, outdated, blocked, pullVars,
                   parseVars, invocations, prev>>

UpsertBuild(x) ==
    /\ pc = "builds"
    /\ Fits(builds, \E r \in builds : r.url = x.url,
            {y.url : y \in BuildInputs})
    /\ builds' = BuildUpsert(builds, x)
    /\ UNCHANGED <<callVars, serverVars, jobs, runs, artifacts, issues, tags,
                   similarities, pc, cfg, tag_ids, outdated, blocked, pullVars,
                   parseVars, invocations, prev>>

UpsertRun(x) ==
    /\ pc = "runs"
    /\ Fits(runs, select_one_by_url(runs, x.url) # None,
            {y.url : y \in RunInputs})
    /\ runs' = RunUpsert(runs, x)
    /\ UNCHANGED <<callVars, serverVars, jobs, builds, artifacts, issues, tags,
                   similarities, pc, cfg, tag_ids, outdated, blocked, pullVars,
                   parseVars, invocations, prev>>

UpsertTag(x) ==
    /\ pc = "tags_table"
    /\ Fits(tags, select_by_name(tags, x.name) # None,
            {y.name : y \in TagInputs})
    /\ tags' = TagUpsert(tags, x)
    /\ UNCHANGED <<callVars, serverVars, jobs, builds, runs, artifacts, issues,
                   similarities, pc, cfg, tag_ids, outdated, blocked, pullVars,
                   parseVars, invocations, prev>>

\* DELETE of one row, as the purges do
DeleteRow(r) ==
    /\ \/ pc = "jobs" /\ r \in jobs
       \/ pc = "builds" /\ r \in builds
       \/ pc = "runs" /\ r \in runs
       \/ pc = "tags_table" /\ r \in tags
    /\ jobs' = IF pc = "jobs" THEN jobs \ {r} ELSE jobs
    /\ builds' = IF pc = "builds" THEN builds \ {r} ELSE builds
    /\ runs' = IF pc = "runs" THEN runs \ {r} ELSE runs
    /\ tags' = IF pc = "tags_table" THEN tags \ {r} ELSE tags
    /\ UNCHANGED <<callVars, serverVars, artifacts, issues, similarities, pc, cfg,
                   tag_ids, outdated, blocked, pullVars, parseVars, invocations,
                   prev>>

UpsertNext ==
    \/ \E table \in {"jobs", "builds", "runs", "tags_table"} : UpsertStart(table)
    \/ \E x \in JobInputs : UpsertJob(x)
    \/ \E x \in BuildInputs : UpsertBuild(x)
    \/ \E x \in RunInputs : UpsertRun(x)
    \/ \E x \in TagInputs : UpsertTag(x)
    \/ \E r \in jobs \cup builds \cup runs \cup tags : DeleteRow(r)

UpsertSpec == UpsertInit /\ [][UpsertNext]_vars

\* ------------------------------------------------------------------------
\* grep_issue as a function of one tag and one field text
\* ------------------------------------------------------------------------
\* the sequences over alphabet of length lo..hi
Strings(alphabet, lo, hi) == UNION {[1..k -> alphabet] : k \in lo..hi}

Texts == Strings({"a", "b"}, 0, MaxText)

Patterns == Strings({"a", "b", "."}, 1, MaxPattern)

GrepInit ==
    /\ listed = {"J1"}
    /\ InitStore
    /\ arg \in {Some([pattern |-> p, tag_id |-> 1, text |-> t]) :
                   p \in Patterns, t \in Texts}
    /\ ret = None

GrepIssue ==
    /\ ret = None
    /\ ret' = Some(grep_issue_map(arg[1].pattern, arg[1].tag_id, arg[1].text))
    /\ UNCHANGED <<serverVars, jobs, builds, runs, artifacts, issues, tags,
                   similarities, pc, cfg, tag_ids, outdated, blocked, pullVars,
                   parseVars, invocations, prev, arg, kernelVars, runPullVars>>

GrepNext == GrepIssue

GrepSpec == GrepInit /\ [][GrepNext]_vars

\* ------------------------------------------------------------------------
\* levenshtein_distance as a function of two strings
\* ------------------------------------------------------------------------
Chars == {"a", "b", "U+00E9"}

LevTexts == Strings(Chars, 0, MaxChars)

LevInit ==
    /\ listed = {"J1"}
    /\ InitStore
    /\ arg \in {Some([a |-> a, b |-> b]) : a \in LevTexts, b \in LevTexts}
    /\ ret = None

Levenshtein ==
    /\ ret = None
    /\ ret' = Some(levenshtein_distance(arg[1].a, arg[1].b))
    /\ UNCHANGED <<serverVars, jobs, builds, runs, artifacts, issues, tags,
                   similarities, pc, cfg, tag_ids, outdated, blocked, pullVars,
                   parseVars, invocations, prev, arg, kernelVars, runPullVars>>

LevNext == Levenshtein

LevSpec == LevInit /\ [][LevNext]_vars

\* ------------------------------------------------------------------------
\* the catalog fingerprint across a change of the catalog between two
\* invocations
\* ------------------------------------------------------------------------
SchemaTags ==
    [name : {"err", "nm"}, desc : {"d", "e"}, pattern : {<<"e", ".", ".">>, <<"a">>},
     from : {"Console", "RunName"}, severity : {"Error", "Metadata"}]

SchemaCatalogs == Strings(SchemaTags, 1, MaxCatalog)

\* arg = the catalog of the last invocation and the catalog of this one
SchemaInit ==
    /\ listed = {"J1"}
    /\ InitStore
    /\ arg \in {Some([old |-> o, new |-> n]) : o \in Catalogs, n \in SchemaCatalogs}
    /\ ret = None

\* the store the invocation under arg.old left (one failed run, parsed, with
\* one finding), and main of the next invocation up to tags.schema()
SchemaStart ==
    /\ pc = "idle"
    /\ invocations = 0
    /\ runs' = RunUpsert({}, [as_run(FullBuild(RunUrl("J1", 1, "a")), 1)
                                EXCEPT !.tag_schema = Some(schema(arg[1].old))])
    /\ issues' = {[id |-> 1] @@
                    into_issue_info([start |-> 0, end |-> 1, tag_id |-> 1,
                                     duplicates |-> 0], [id |-> 1], None)}
    /\ cfg' = [catalog |-> arg[1].new, blocklist |-> <<>>, last_n_history |-> 1]
    /\ ret' = Some([old |-> schema(arg[1].old), new |-> schema(arg[1].new)])
    /\ invocations' = 1
    /\ pc' = "invalid"
    /\ UNCHANGED <<serverVars, jobs, builds, artifacts, tags, similarities,
                   tag_ids, outdated, blocked, pullVars, parseVars, prev, arg,
                   kernelVars, runPullVars>>

SchemaNext == SchemaStart \/ PurgeOutdated

SchemaSpec == SchemaInit /\ [][SchemaNext]_vars

\* ------------------------------------------------------------------------
\* db/mod.rs: Database::call and the worker thread
\* ------------------------------------------------------------------------
\* the newest message of the channel in place of the oldest
recv_newest(queue, n) == queue[Len(queue)]

\* mpsc::UnboundedReceiver::blocking_recv: the oldest message not yet
\* received, n being the number received so far
blocking_recv(queue, n) == queue[n + 1]

\* the closure of the k-th call of task t: it reads how many closures the
\* connection has run and leaves its mark
Closure(t, k) == [task |-> t, k |-> k]

CallInit ==
    /\ listed = {"J1"}
    /\ InitStore
    /\ arg = None
    /\ ret = None

\* Database::call up to rx.await: a oneshot channel is made and the closure
\* is sent with its sender
Call(t) ==
    /\ caller[t].awaiting = 0
    /\ Len(caller[t].got) < MaxCalls
    /\ sent' = Append(sent, Closure(t, Len(caller[t].got) + 1))
    /\ oneshot' = Append(oneshot, None)
    /\ caller' = [caller EXCEPT ![t].awaiting = Len(sent) + 1]
    /\ UNCHANGED <<arg, ret, runPullVars, received, running, executed, serverVars, jobs,
                   builds, runs, artifacts, issues, tags, similarities, pc, cfg,
                   tag_ids, outdated, blocked, pullVars, parseVars, invocations,
                   prev>>

\* the worker, were it to leave its loop after a closure that returned an
\* error
WorkerRecvUntilError ==
    /\ running = None
    /\ received < Len(sent)
    /\ \A k \in 1..Len(executed) : ~ executed[k].fails
    /\ running' = Some(blocking_recv(sent, received))
    /\ received' = received + 1
    /\ UNCHANGED <<arg, ret, runPullVars, sent, executed, oneshot, caller, serverVars, jobs,
                   builds, runs, artifacts, issues, tags, similarities, pc, cfg,
                   tag_ids, outdated, blocked, pullVars, parseVars, invocations,
                   prev>>

\* the worker: `while let Some(msg) = rx.blocking_recv()`
WorkerRecv ==
    /\ running = None
    /\ received < Len(sent)
    /\ running' = Some(blocking_recv(sent, received))
    /\ received' = received + 1
    /\ UNCHANGED <<arg, ret, runPullVars, sent, executed, oneshot, caller, serverVars, jobs,
                   builds, runs, artifacts, issues, tags, similarities, pc, cfg,
                   tag_ids, outdated, blocked, pullVars, parseVars, invocations,
                   prev>>

\* Message::call: tx.send(closure(conn)) on the sender the message carries
WorkerCall ==
    /\ running # None
    /\ LET m == CHOOSE k \in 1..Len(sent) : sent[k] = running[1]
       IN oneshot' = [oneshot EXCEPT
                        ![m] = Some([closure |-> running[1],
                                     value |-> Len(executed)])]
    /\ executed' = Append(executed, running[1])
    /\ running' = None
    /\ UNCHANGED <<arg, ret, runPullVars, sent, received, caller, serverVars, jobs, builds,
                   runs, artifacts, issues, tags, similarities, pc, cfg, tag_ids,
                   outdated, blocked, pullVars, parseVars, invocations, prev>>

\* Database::call: rx.await.unwrap() on the receiver of its own channel
CallReturn(t) ==
    /\ caller[t].awaiting # 0
    /\ oneshot[caller[t].awaiting] # None
    /\ caller' = [caller EXCEPT ![t].awaiting = 0,
                                ![t].got = Append(@, oneshot[caller[t].awaiting][1])]
    /\ UNCHANGED <<arg, ret, runPullVars, sent, received, running, executed, oneshot,
                   serverVars, jobs, builds, runs, artifacts, issues, tags,
                   similarities, pc, cfg, tag_ids, outdated, blocked, pullVars,
                   parseVars, invocations, prev>>

CallNext ==
    \/ \E t \in Tasks : Call(t)
    \/ WorkerRecv
    \/ WorkerCall
    \/ \E t \in Tasks : CallReturn(t)

CallSpec == CallInit /\ [][CallNext]_vars

\* ------------------------------------------------------------------------
\* Database::open, and calls whose closures return an error
\* ------------------------------------------------------------------------
\* the tables of for_all!: SimilarityInfo, IssueInfo, Artifact, Run, JobBuild,
\* Job, TagInfo
NumTables == 7

Opener == "opener"

\* whether Connection::open succeeds, and which create_table fails (0: none)
OpenInputs == [open : BOOLEAN, create : 0..NumTables]

OpenTasks == {"t1", "t2"}

\* a closure that returns Ok or, when fails, Err
FallibleClosure(t, k, fails) == [task |-> t, k |-> k, fails |-> fails]

\* what a closure returned, by the payload of its oneshot channel
ResultOf(payload) == IF payload.closure.fails THEN "Err" ELSE "Ok"

\* pc is the position of the spawned thread: "idle" before Connection::open,
\* "serving" in the receive loop, "returned" after it.  ret.res is the
\* channel res_tx/res_rx, ret.step the position of Database::open and
\* ret.out what it returned.
OpenInit ==
    /\ listed = {"J1"}
    /\ InitStore
    /\ arg \in {Some(x) : x \in OpenInputs}
    /\ ret = [res |-> None, step |-> "recv", out |-> None]

\* the spawned thread up to its loop: the result of opening the connection
\* is sent on res_tx, and an error ends the thread
WorkerOpen ==
    /\ pc = "idle"
    /\ ret' = [ret EXCEPT !.res = Some(IF arg[1].open THEN "Ok" ELSE "Err")]
    /\ pc' = IF arg[1].open THEN "serving" ELSE "returned"
    /\ UNCHANGED <<arg, kernelVars, runPullVars, serverVars, jobs, builds, runs,
                   artifacts, issues, tags, similarities, cfg, tag_ids,
                   outdated, blocked, pullVars, parseVars, invocations, prev>>

\* Database::open at `res_rx.await.unwrap().map(|_| Self { tx })?`: an error
\* is returned; otherwise the first create_table is called
OpenRecv ==
    /\ ret.step = "recv"
    /\ ret.res # None
    /\ IF ret.res = Some("Err")
       THEN /\ ret' = [ret EXCEPT !.step = "done", !.out = Some("Err")]
            /\ UNCHANGED <<sent, oneshot>>
       ELSE /\ ret' = [ret EXCEPT !.step = "create"]
            /\ sent' = Append(sent, FallibleClosure(Opener, 1, arg[1].create = 1))
            /\ oneshot' = Append(oneshot, None)
    /\ UNCHANGED <<arg, runPullVars, received, running, executed, caller,
                   serverVars, jobs, builds, runs, artifacts, issues, tags,
                   similarities, pc, cfg, tag_ids, outdated, blocked, pullVars,
                   parseVars, invocations, prev>>

\* Database::open at `create_table(&db).await?`: an error is returned and db
\* is dropped; otherwise the next table is created, and after the last one
\* Ok(db) is returned
OpenCreate ==
    /\ ret.step = "create"
    /\ oneshot[Len(sent)] # None
    /\ LET k == Len(sent)
       IN IF ResultOf(oneshot[k][1]) = "Err"
          THEN /\ ret' = [ret EXCEPT !.step = "done", !.out = Some("Err")]
               /\ UNCHANGED <<sent, oneshot>>
          ELSE IF k = NumTables
          THEN /\ ret' = [ret EXCEPT !.step = "done", !.out = Some("Ok")]
               /\ UNCHANGED <<sent, oneshot>>
          ELSE /\ sent' = Append(sent, FallibleClosure(Opener, k + 1,
                                                       arg[1].create = k + 1))
               /\ oneshot' = Append(oneshot, None)
               /\ UNCHANGED ret
    /\ UNCHANGED <<arg, runPullVars, received, running, executed, caller,
                   serverVars, jobs, builds, runs, artifacts, issues, tags,
                   similarities, pc, cfg, tag_ids, outdated, blocked, pullVars,
                   parseVars, invocations, prev>>

\* Database::call by a task that holds the handle, with a closure that
\* returns Ok or Err
CallFallible(t, fails) ==
    /\ ret.out = Some("Ok")
    /\ caller[t].awaiting = 0
    /\ Len(caller[t].got) < MaxCalls
    /\ sent' = Append(sent, FallibleClosure(t, Len(caller[t].got) + 1, fails))
    /\ oneshot' = Append(oneshot, None)
    /\ caller' = [caller EXCEPT ![t].awaiting = Len(sent) + 1]
    /\ UNCHANGED <<arg, ret, runPullVars, received, running, executed, serverVars, jobs,
                   builds, runs, artifacts, issues, tags, similarities, pc, cfg,
                   tag_ids, outdated, blocked, pullVars, parseVars, invocations,
                   prev>>

\* the worker's loop ends when blocking_recv returns None: every sender has
\* been dropped and the queue is empty
WorkerExit ==
    /\ pc = "serving"
    /\ ret.out = Some("Err")
    /\ running = None
    /\ received = Len(sent)
    /\ pc' = "returned"
    /\ UNCHANGED <<callVars, serverVars, jobs, builds, runs, artifacts, issues,
                   tags, similarities, cfg, tag_ids, outdated, blocked,
                   pullVars, parseVars, invocations, prev>>

OpenNext ==
    \/ WorkerOpen
    \/ OpenRecv
    \/ OpenCreate
    \/ \E t \in OpenTasks, fails \in BOOLEAN : CallFallible(t, fails)
    \/ WorkerRecv
    \/ WorkerCall
    \/ \E t \in OpenTasks : CallReturn(t)
    \/ WorkerExit

\* the worker is a thread of its own and the opener a task of the runtime:
\* each takes its next step when it can
OpenSpec ==
    /\ OpenInit
    /\ [][OpenNext]_vars
    /\ WF_vars(WorkerOpen)
    /\ WF_vars(WorkerRecv)
    /\ WF_vars(WorkerCall)
    /\ WF_vars(OpenRecv)
    /\ WF_vars(OpenCreate)

\* ------------------------------------------------------------------------
\* tag_expr.rs: TagExpr, eval_rows, to_sql_select
\* ------------------------------------------------------------------------
Not(e) == [op |-> "Not", e |-> e]

And(l, r) == [op |-> "And", l |-> l, r |-> r]

Or(l, r) == [op |-> "Or", l |-> l, r |-> r]

TagSetOf(p) == [op |-> "TagSet", p |-> p]

SeveritySetOf(sev) == [op |-> "SeveritySet", s |-> sev]

TagOf(p) == [op |-> "Tag", p |-> p]

SeverityOf(sev) == [op |-> "Severity", s |-> sev]

\* the generator handed back as the only row
tag_to_set_unexpanded(tag_infos, p, invert) == <<TagSetOf(p)>>

\* the closure tag_to_set: a Tag row per catalog tag whose name the regex
\* matches (does not match, when inverted), in catalog order
tag_to_set(tag_infos, p, invert) ==
    LET hit == SelectSeq(tag_infos, LAMBDA t : is_match(p, t.name) # invert)
    IN [k \in 1..Len(hit) |-> TagOf(hit[k].name)]

\* the closure severity_to_set
severity_to_set(tag_infos, sev, invert) ==
    LET hit == SelectSeq(tag_infos, LAMBDA t : (t.severity = sev) # invert)
    IN [k \in 1..Len(hit) |-> TagOf(hit[k].name)]

\* the rows of both sides zipped: row i of l with row i of r
AndRowsZipped(l_rows, r_rows) ==
    [i \in 1..Min2(Len(l_rows), Len(r_rows)) |-> And(l_rows[i], r_rows[i])]

\* r_rows.flat_map(|y| l_rows.map(|x| And(x, y)))
AndRows(l_rows, r_rows) ==
    Flatten([j \in 1..Len(r_rows) |->
               [i \in 1..Len(l_rows) |-> And(l_rows[i], r_rows[j])]])

\* r_rows.flat_map(|y| l_rows.map(|x| Or(x, y)))
OrRows(l_rows, r_rows) ==
    Flatten([j \in 1..Len(r_rows) |->
               [i \in 1..Len(l_rows) |-> Or(l_rows[i], r_rows[j])]])

\* !(l && r) rewritten to (!l) && (!r)
NotAndKeepsAnd(l, r) == And(Not(l), Not(r))

\* the arm Not(And(l, r)) of eval_rows: the expression evaluated instead
NotAnd(l, r) == Or(Not(l), Not(r))

\* the arm Not(Or(l, r)) of eval_rows
NotOr(l, r) == And(Not(l), Not(r))

\* TagExpr::eval_rows
RECURSIVE eval_rows(_, _)
eval_rows(expr, tag_infos) ==
    IF expr.op = "Not"
    THEN LET e == expr.e
         IN IF e.op = "Not" THEN eval_rows(e.e, tag_infos)
            ELSE IF e.op = "And" THEN eval_rows(NotAnd(e.l, e.r), tag_infos)
            ELSE IF e.op = "Or" THEN eval_rows(NotOr(e.l, e.r), tag_infos)
            ELSE IF e.op = "TagSet" THEN tag_to_set(tag_infos, e.p, TRUE)
            ELSE IF e.op = "SeveritySet" THEN severity_to_set(tag_infos, e.s, TRUE)
            ELSE <<Not(e)>>
    ELSE IF expr.op = "And"
    THEN AndRows(eval_rows(expr.l, tag_infos), eval_rows(expr.r, tag_infos))
    ELSE IF expr.op = "Or"
    THEN OrRows(eval_rows(expr.l, tag_infos), eval_rows(expr.r, tag_infos))
    ELSE IF expr.op = "TagSet" THEN tag_to_set(tag_infos, expr.p, FALSE)
    ELSE IF expr.op = "SeveritySet" THEN severity_to_set(tag_infos, expr.s, FALSE)
    ELSE <<expr>>

\* to_where_expr of to_sql_select: the WHERE expression and its parameters,
\* None for Err(InvalidQuery)
RECURSIVE to_where_expr(_)
to_where_expr(expr) ==
    IF expr.op = "Not"
    THEN LET r == to_where_expr(expr.e)
         IN IF r = None THEN None
            ELSE Some([sql |-> <<"NOT (">> \o r[1].sql \o <<")">>,
                       params |-> r[1].params])
    ELSE IF expr.op \in {"And", "Or"}
    THEN LET l == to_where_expr(expr.l)
             r == to_where_expr(expr.r)
         IN IF l = None \/ r = None THEN None
            ELSE Some([sql |-> <<"(">> \o l[1].sql
                                \o <<IF expr.op = "And" THEN ") AND (" ELSE ") OR (">>
                                \o r[1].sql \o <<")">>,
                       params |-> l[1].params \o r[1].params])
    ELSE IF expr.op = "Tag"
    THEN Some([sql |-> <<"EXISTS (.. tags.name REGEXP ?)">>, params |-> <<expr.p>>])
    ELSE IF expr.op = "Severity"
    THEN Some([sql |-> <<"EXISTS (.. tags.severity = ?)">>, params |-> <<<<expr.s>>>>])
    ELSE None

\* TagExpr::to_sql_select
to_sql_select(expr) ==
    LET r == to_where_expr(expr)
    IN IF r = None THEN None
       ELSE Some([sql |-> <<"SELECT DISTINCT runs.id FROM runs WHERE">> \o r[1].sql,
                  params |-> r[1].params])

\* the atoms over one tag pattern and one severity
Atoms ==
    {TagSetOf(<<"e">>), SeveritySetOf("Error"), TagOf(<<"e">>), SeverityOf("Error")}

\* the expressions of depth at most d
RECURSIVE Exprs(_)
Exprs(d) ==
    IF d = 0 THEN Atoms
    ELSE LET sub == Exprs(d - 1)
         IN sub \cup {Not(e) : e \in sub}
                \cup {And(l, r) : l \in sub, r \in sub}
                \cup {Or(l, r) : l \in sub, r \in sub}

\* the tags table: empty, one tag, two tags
TagCatalogs ==
    {<<>>,
     <<[name |-> <<"n", "m">>, severity |-> "Metadata"]>>,
     <<[name |-> <<"e", "r", "r">>, severity |-> "Error"],
       [name |-> <<"n", "m">>, severity |-> "Metadata"]>>}

\* the second operand of the conjunctions and disjunctions negated
RightOperands == {SeveritySetOf("Error"), TagOf(<<"e">>)}

ExprInit ==
    /\ listed = {"J1"}
    /\ InitStore
    /\ arg \in {Some([a |-> a, b |-> b, tags |-> c]) :
                   a \in Exprs(MaxDepth), b \in RightOperands,
                   c \in TagCatalogs}
    /\ ret = None

\* eval_rows of the expression a, of the negations of a && b and a || b
\* and of their De Morgan forms, and to_sql_select of every row
EvalRows ==
    /\ ret = None
    /\ LET a == arg[1].a
           b == arg[1].b
           rows == [e |-> eval_rows(a, arg[1].tags),
                    not_e |-> eval_rows(Not(a), arg[1].tags),
                    not_and |-> eval_rows(Not(And(a, b)), arg[1].tags),
                    or_nots |-> eval_rows(Or(Not(a), Not(b)), arg[1].tags),
                    not_or |-> eval_rows(Not(Or(a, b)), arg[1].tags),
                    and_nots |-> eval_rows(And(Not(a), Not(b)), arg[1].tags)]
       IN ret' = Some([rows |-> rows,
                       sql |-> [f \in DOMAIN rows |->
                                  [k \in 1..Len(rows[f]) |->
                                     to_sql_select(rows[f][k])]]])
    /\ UNCHANGED <<serverVars, jobs, builds, runs, artifacts, issues, tags,
                   similarities, pc, cfg, tag_ids, outdated, blocked, pullVars,
                   parseVars, invocations, prev, arg, kernelVars, runPullVars>>

ExprNext == EvalRows

ExprSpec == ExprInit /\ [][ExprNext]_vars

\* ------------------------------------------------------------------------
\* tag_expr.rs: TagExpr::parse, a Pratt parser over the tokens of a view
\* ------------------------------------------------------------------------
\* prefix(2, just('!'), ..)
NotPower == 2

\* infix(left(1), just("&&"), ..)
AndPower == 1

\* infix(left(0), just("||"), ..)
OrPower == 0

\* the atoms t"a" and t"b", written a and b
AtomTokens == {"a", "b"}

Tokens == AtomTokens \cup {"!", "&&", "||", "(", ")"}

\* the binding powers with those of && and || exchanged
infix_power_swapped(tok) == IF tok = "&&" THEN OrPower ELSE AndPower

\* the binding power of an infix operator
infix_power(tok) == IF tok = "&&" THEN AndPower ELSE OrPower

\* Associativity::Left(p): the power an operator needs on its left and
\* the minimum power handed to its right operand
left_power(p) == p * 2

right_power(p) == p * 2 + 1

\* the Pratt loop of `.pratt((prefix, infix, infix))`: pratt parses a
\* prefix operator, a parenthesised expression or an atom at toks[pos];
\* pratt_infix then takes infix operators whose left power is at least
\* min_power.  The result is the expression and the position after it,
\* None when nothing can be parsed at pos.
RECURSIVE pratt(_, _, _)
RECURSIVE pratt_infix(_, _, _, _)
pratt(toks, pos, min_power) ==
    IF pos > Len(toks) THEN None
    ELSE IF toks[pos] = "!"
    THEN LET r == pratt(toks, pos + 1, left_power(NotPower))
         IN IF r = None THEN None
            ELSE pratt_infix(toks, Not(r[1].e), r[1].pos, min_power)
    ELSE IF toks[pos] = "("
    THEN LET r == pratt(toks, pos + 1, 0)
         IN IF r = None THEN None
            ELSE IF r[1].pos > Len(toks) THEN None
            ELSE IF toks[r[1].pos] # ")" THEN None
            ELSE pratt_infix(toks, r[1].e, r[1].pos + 1, min_power)
    ELSE IF toks[pos] \in AtomTokens
    THEN pratt_infix(toks, TagOf(<<toks[pos]>>), pos + 1, min_power)
    ELSE None

pratt_infix(toks, lhs, pos, min_power) ==
    IF pos > Len(toks) THEN Some([e |-> lhs, pos |-> pos])
    ELSE IF toks[pos] \notin {"&&", "||"} THEN Some([e |-> lhs, pos |-> pos])
    ELSE IF left_power(infix_power(toks[pos])) < min_power
    THEN Some([e |-> lhs, pos |-> pos])
    ELSE LET r == pratt(toks, pos + 1, right_power(infix_power(toks[pos])))
         IN IF r = None THEN Some([e |-> lhs, pos |-> pos])
            ELSE pratt_infix(toks,
                             IF toks[pos] = "&&" THEN And(lhs, r[1].e)
                             ELSE Or(lhs, r[1].e),
                             r[1].pos, min_power)

\* TagExpr::parse: the whole input must be one expression
parse(toks) ==
    LET r == pratt(toks, 1, 0)
    IN IF r = None THEN None
       ELSE IF r[1].pos # Len(toks) + 1 THEN None
       ELSE Some(r[1].e)

ParseInit ==
    /\ listed = {"J1"}
    /\ InitStore
    /\ arg \in {Some(toks) : toks \in Strings(Tokens, 1, MaxTokens)}
    /\ ret = None

Parse ==
    /\ ret = None
    /\ ret' = Some(parse(arg[1]))
    /\ UNCHANGED <<serverVars, jobs, builds, runs, artifacts, issues, tags,
                   similarities, pc, cfg, tag_ids, outdated, blocked, pullVars,
                   parseVars, invocations, prev, arg, kernelVars, runPullVars>>

ParseNext == Parse

ParseSpec == ParseInit /\ [][ParseNext]_vars

\* ------------------------------------------------------------------------
\* page.rs, run.rs: the rows of a view and the runs each row selects
\* ------------------------------------------------------------------------
\* the tags of the store of a view; the name of the first occurs in the
\* name of the second
SelectCatalog ==
    <<[name |-> <<"e", "r">>, desc |-> "d", field |-> "Console", severity |-> "Error"],
      [name |-> <<"e", "r", "r">>, desc |-> "d", field |-> "Console",
       severity |-> "Error"],
      [name |-> <<"n", "m">>, desc |-> "d", field |-> "RunName",
       severity |-> "Metadata"]>>

SelectRuns == {RunUrl("J1", 1, "a"), RunUrl("J1", 1, "b")}

\* TagInfo::select_all: the rows of tags, by id
select_all_tags(table) ==
    LET ids == SetToSortedSeq({t.id : t \in table})
    IN [k \in 1..Len(ids) |-> CHOOSE t \in table : t.id = ids[k]]

\* the subquery without `issues.run_id = runs.id`
ExistsNameAnyRun(D, run_id, param) ==
    \E i \in D.issues : \E t \in D.tags :
        t.id = i.tag_id /\ is_match(param, t.name)

\* EXISTS (SELECT 1 FROM issues JOIN tags ON tags.id = issues.tag_id WHERE
\* issues.run_id = runs.id AND tags.name REGEXP ?)
ExistsName(D, run_id, param) ==
    \E i \in D.issues : \E t \in D.tags :
        t.id = i.tag_id /\ i.run_id = run_id /\ is_match(param, t.name)

\* EXISTS (... AND tags.severity = ?): the column holds the value that
\* write_value made of the severity, the parameter the one to_value made
ExistsSeverity(D, run_id, param) ==
    \E i \in D.issues : \E t \in D.tags :
        t.id = i.tag_id /\ i.run_id = run_id /\ <<t.severity>> = param

\* the value of the WHERE expression that starts at sql[pos], for one row
\* of runs: the value, the position after the expression and the index of
\* the next parameter
RECURSIVE where_value(_, _, _, _, _, _)
where_value(D, run_id, sql, params, pos, n) ==
    IF sql[pos] = "NOT ("
    THEN LET e == where_value(D, run_id, sql, params, pos + 1, n)
         IN [v |-> ~ e.v, pos |-> e.pos + 1, n |-> e.n]
    ELSE IF sql[pos] = "("
    THEN LET l == where_value(D, run_id, sql, params, pos + 1, n)
             r == where_value(D, run_id, sql, params, l.pos + 1, l.n)
         IN [v |-> IF sql[l.pos] = ") AND (" THEN l.v /\ r.v ELSE l.v \/ r.v,
             pos |-> r.pos + 1, n |-> r.n]
    ELSE IF sql[pos] = "EXISTS (.. tags.name REGEXP ?)"
    THEN [v |-> ExistsName(D, run_id, params[n]), pos |-> pos + 1, n |-> n + 1]
    ELSE [v |-> ExistsSeverity(D, run_id, params[n]), pos |-> pos + 1, n |-> n + 1]

\* Run::select_all_id_by_expr: the ids the compiled SELECT returns, None
\* when to_sql_select fails
select_all_id_by_expr(D, expr) ==
    LET q == to_sql_select(expr)
    IN IF q = None THEN None
       ELSE Some({r.id : r \in {r \in D.runs :
                     where_value(D, r.id, q[1].sql, q[1].params, 2, 1).v}})

SelectAtoms ==
    {TagSetOf(<<"e", "r">>), SeveritySetOf("Error"), TagOf(<<"e", "r", "r">>),
     SeverityOf("Metadata")}

SelectExprs == SelectAtoms \cup {Not(e) : e \in SelectAtoms}

SelectOperands == {SeveritySetOf("Error"), Not(TagOf(<<"n">>))}

\* arg = the expressions a and b of a view and the (run, tag) pairs of the
\* findings of the store
SelectInit ==
    /\ listed = {"J1"}
    /\ InitStore
    /\ arg \in {Some([a |-> a, b |-> b, findings |-> f]) :
                   a \in SelectExprs, b \in SelectOperands,
                   f \in SUBSET ((1..Cardinality(SelectRuns)) \X (1..Len(SelectCatalog)))}
    /\ ret = None

\* the store of the view: the tags of SelectCatalog, two failed runs and
\* the findings arg.findings
SelectStore ==
    /\ pc = "idle"
    /\ tags = {}
    /\ tags' = {[id |-> k] @@ SelectCatalog[k] : k \in 1..Len(SelectCatalog)}
    /\ runs' = RunUpsert(RunUpsert({}, as_run(FullBuild(RunUrl("J1", 1, "a")), 1)),
                         as_run(FullBuild(RunUrl("J1", 1, "b")), 1))
    /\ issues' = LET f == SetToSortedSeq({(p[1] - 1) * Len(SelectCatalog) + p[2]
                                           : p \in arg[1].findings})
                 IN {[id |-> k] @@
                       into_issue_info([start |-> 0, end |-> 1,
                                        tag_id |-> ((f[k] - 1) % Len(SelectCatalog)) + 1,
                                        duplicates |-> 0],
                                       [id |-> ((f[k] - 1) \div Len(SelectCatalog)) + 1],
                                       None)
                     : k \in 1..Len(f)}
    /\ UNCHANGED <<callVars, serverVars, jobs, builds, artifacts, similarities, pc,
                   cfg, tag_ids, outdated, blocked, pullVars, parseVars,
                   invocations, prev>>

\* render_view for the expressions a, b, a && b and a || b: eval_rows over
\* the tags of the store, then select_all_id_by_expr of every row
RenderView ==
    /\ tags # {}
    /\ ret = None
    /\ LET tag_infos == select_all_tags(tags)
           rows == [a |-> eval_rows(arg[1].a, tag_infos),
                    b |-> eval_rows(arg[1].b, tag_infos),
                    and |-> eval_rows(And(arg[1].a, arg[1].b), tag_infos),
                    or |-> eval_rows(Or(arg[1].a, arg[1].b), tag_infos)]
       IN ret' = Some([rows |-> rows,
                       ids |-> [f \in DOMAIN rows |->
                                  [k \in 1..Len(rows[f]) |->
                                     select_all_id_by_expr(DB, rows[f][k])]]])
    /\ UNCHANGED <<serverVars, jobs, builds, runs, artifacts, issues, tags,
                   similarities, pc, cfg, tag_ids, outdated, blocked, pullVars,
                   parseVars, invocations, prev, arg, kernelVars, runPullVars>>

SelectNext == SelectStore \/ RenderView

SelectSpec == SelectInit /\ [][SelectNext]_vars

\* ------------------------------------------------------------------------
\* Properties
\* ------------------------------------------------------------------------
CurrentSchema == Some(schema(cfg.catalog))

PulledIds == {pulled[k].id : k \in 1..Len(pulled)}

\* C1: at the end of an invocation every run has tag_schema equal to the
\* current fingerprint, or is a cache hit that still carries the non-null
\* fingerprint it was emitted with; no run the puller emitted is left null.
SchemaTracking ==
    pc = "done" =>
        /\ \A r \in runs :
              \/ r.tag_schema = CurrentSchema
              \/ /\ r.url \notin fetched
                 /\ r.tag_schema # None
                 /\ \E k \in 1..Len(pulled) :
                       pulled[k].id = r.id /\ pulled[k].tag_schema = r.tag_schema
        /\ \A r \in runs : r.id \in PulledIds => r.tag_schema # None

\* an invocation that parsed freshly fetched runs next to cache hits
SchemaTrackingWitness ==
    /\ pc = "done"
    /\ inserted_issues # <<>>
    /\ \E k \in 1..Len(pulled) : pulled[k].url \in fetched
    /\ \E k \in 1..Len(pulled) : pulled[k].url \notin fetched

\* C2: the batched UPDATE that ends the parse phase leaves tag_schema null
\* on every run that had it null and was not handed to the parser.
UpdateOnlyParsed ==
    [][(pc = "parse" /\ pc' = "orphan") =>
          \A r \in runs :
              (r.tag_schema = None /\ r.id \notin PulledIds) =>
                  \E r2 \in runs' : r2.id = r.id /\ r2.tag_schema = None]_vars

\* number of similarity rows that reference issue id
SimilarityRowsOf(B, id) ==
    BagSize([x \in {y \in DOMAIN B : y.issue_id = id} |-> B[x]])

\* C3: every finding is referenced by at most one similarity row.
OneSimilarityPerFinding ==
    \A i \in issues : SimilarityRowsOf(similarities, i.id) <= 1

\* hashes present in the similarities table
SimilarityHashes(B) == {s.similarity_hash : s \in BagToSet(B)}

\* findings whose similarity rows carry hash h
FindingsOfHash(B, I, h) ==
    {i \in I : \E s \in BagToSet(B) : s.similarity_hash = h /\ s.issue_id = i.id}

\* C4: every similarity hash in the table is shared by the rows of at least
\* two distinct findings.
HashSharedByTwo ==
    \A h \in SimilarityHashes(similarities) :
        Cardinality(FindingsOfHash(similarities, issues, h)) >= 2

\* every foreign key of D refers to an existing row
ReferentialIntegrity(D) ==
    /\ \A b \in D.builds : \E j \in D.jobs : j.id = b.job_id
    /\ \A r \in D.runs : \E b \in D.builds : b.id = r.build_id
    /\ \A a \in D.artifacts : \E r \in D.runs : r.id = a.run_id
    /\ \A i \in D.issues : /\ \E r \in D.runs : r.id = i.run_id
                           /\ \E t \in D.tags : t.id = i.tag_id
                           /\ i.artifact_id # None =>
                                  \E a \in D.artifacts : a.id = i.artifact_id[1]
    /\ \A s \in BagToSet(D.similarities) : \E i \in D.issues : i.id = s.issue_id

\* C5: at the end of an invocation every build, run, artifact, finding and
\* similarity row refers to existing rows.
IntegrityAtExit == pc = "done" => ReferentialIntegrity(DB)

InvalidationEffect ==
    [][(pc = "invalid" /\ pc' = "blocklist") =>
          LET c == Some(schema(cfg.catalog))
              reset == {r \in runs : r.tag_schema # None /\ r.tag_schema # c}
          IN /\ \A r \in reset :
                    /\ ~ \E i \in issues' : i.run_id = r.id
                    /\ ~ \E s \in BagToSet(similarities') :
                           \E i \in issues : i.run_id = r.id /\ s.issue_id = i.id
                    /\ \E r2 \in runs' : r2.id = r.id /\ r2.tag_schema = None
             /\ \A r \in runs :
                    r.tag_schema = c =>
                        /\ r \in runs'
                        /\ {i \in issues' : i.run_id = r.id}
                               = {i \in issues : i.run_id = r.id}
             /\ outdated' = Cardinality(reset)]_vars

\* the invalidation has reset runs that had findings and similarity rows
InvalidationEffectWitness ==
    /\ pc = "blocklist"
    /\ outdated > 1
    /\ prev # None
    /\ prev[1].counts.issues > 0
    /\ prev[1].counts.similarities > 0
    /\ issues = {}

\* C8: an invocation on the server contents, catalog and configuration of
\* the previous one fetches no run and leaves the row count of every table
\* as the previous invocation left it.
CacheHitAcrossRuns ==
    (/\ pc = "done"
     /\ prev # None
     /\ prev[1].listed = listed
     /\ prev[1].latest = latest
     /\ prev[1].cfg = cfg)
        => /\ fetched = {}
           /\ RowCounts(DB) = prev[1].counts

\* rows of D below the job named J, by their urls and by their parents
UnderJob(D, J) ==
    [jobs |-> {j \in D.jobs : j.name = J},
     builds |-> {b \in D.builds : b.url[1] = J},
     runs |-> {r \in D.runs : r.url[1] = J},
     artifacts |-> {a \in D.artifacts :
                      \E r \in D.runs : r.id = a.run_id /\ r.url[1] = J},
     issues |-> {i \in D.issues :
                   \E r \in D.runs : r.id = i.run_id /\ r.url[1] = J}]

\* C9: after an invocation with J on the blocklist the store holds no row
\* of J's subtree and nothing was fetched for J; the purge removes the
\* findings of J's runs and every similarity row that references them.
BlocklistCascades ==
    /\ [](pc = "done" =>
            \A J \in Range(cfg.blocklist) :
                /\ UnderJob(DB, J).jobs = {}
                /\ UnderJob(DB, J).builds = {}
                /\ UnderJob(DB, J).runs = {}
                /\ UnderJob(DB, J).artifacts = {}
                /\ UnderJob(DB, J).issues = {}
                /\ ~ \E u \in fetched : u[1] = J)
    /\ [][(pc = "blocklist" /\ pc' = "pull_jobs") =>
            \A J \in Range(cfg.blocklist) :
                \A i \in UnderJob(DB, J).issues :
                    /\ i \notin issues'
                    /\ ~ \E s \in BagToSet(similarities') : s.issue_id = i.id]_vars

\* the invocation purged the stored subtree of a job the project still lists
BlocklistCascadesWitness ==
    /\ pc = "done"
    /\ blocked > 0
    /\ \E J \in Range(cfg.blocklist) : J \in listed
    /\ prev # None
    /\ prev[1].counts.similarities > 0

\* ids of the rows of table that carry the key of x
KeyIds(table, x, Key(_)) == {r.id : r \in {r \in table : Key(r) = Key(x)}}

\* U(U(table, x), x) = U(table, x), both return the id of the one row under
\* the key of x, and a key present in table keeps its row id and row count
Idempotent(table, x, U(_, _), Ret(_, _), Key(_)) ==
    LET once == U(table, x)
        twice == U(once, x)
    IN /\ twice = once
       /\ Ret(once, x) # None
       /\ Ret(twice, x) = Ret(once, x)
       /\ KeyIds(once, x, Key) = {Ret(once, x)[1]}
       /\ KeyIds(table, x, Key) # {} =>
              /\ Cardinality(once) = Cardinality(table)
              /\ KeyIds(once, x, Key) = KeyIds(table, x, Key)

\* C10: the upserts of Job, Build, Run and Tag are idempotent, return the
\* same row id both times, and on an existing key add no row and keep the id.
UpsertIdempotence ==
    /\ \A x \in JobInputs :
          Idempotent(jobs, x, JobUpsert,
                     LAMBDA t, y : select_one_by_name(t, y.name),
                     LAMBDA r : r.name)
    /\ \A x \in BuildInputs :
          Idempotent(builds, x, BuildUpsert,
                     LAMBDA t, y : select_one_by_job(t, y.job_id, y.number),
                     LAMBDA r : r.url)
    /\ \A x \in RunInputs :
          Idempotent(runs, x, RunUpsert,
                     LAMBDA t, y : select_one_by_url(t, y.url),
                     LAMBDA r : r.url)
    /\ \A x \in TagInputs :
          Idempotent(tags, x, TagUpsert,
                     LAMBDA t, y : select_by_name(t, y.name),
                     LAMBDA r : r.name)

\* a table with a key to update, a key to insert and a freed row id
UpsertIdempotenceWitness ==
    /\ pc = "runs"
    /\ \E x \in RunInputs : KeyIds(runs, x, LAMBDA r : r.url) # {}
    /\ \E x \in RunInputs : KeyIds(runs, x, LAMBDA r : r.url) = {}
    /\ NextId(runs) > Cardinality(runs) + 1

RECURSIVE SumDuplicates(_)
SumDuplicates(out) ==
    IF out = <<>> THEN 0 ELSE Head(out).duplicates + 1 + SumDuplicates(Tail(out))

\* C11: grep_issue yields one finding per distinct matched substring, its
\* duplicates is the number of matches with that substring minus one, and
\* the sum of duplicates + 1 over the findings is the number of matches.
GrepIssueCounts ==
    ret # None =>
        LET ms == find_iter(arg[1].pattern, arg[1].text, 0)
            Snip(k) == SubText(arg[1].text, ms[k].start, ms[k].end)
            out == ret[1]
        IN /\ \A i, j \in 1..Len(out) : out[i].snippet = out[j].snippet => i = j
           /\ {out[i].snippet : i \in 1..Len(out)} = {Snip(k) : k \in 1..Len(ms)}
           /\ \A i \in 1..Len(out) :
                 out[i].duplicates
                     = Cardinality({k \in 1..Len(ms) : Snip(k) = out[i].snippet}) - 1
           /\ SumDuplicates(out) = Len(ms)

\* a text in which one substring is matched twice and another once
GrepIssueCountsWitness ==
    /\ ret # None
    /\ Len(ret[1]) > 1
    /\ \E i \in 1..Len(ret[1]) : ret[1][i].duplicates > 0
    /\ \E i \in 1..Len(ret[1]) : ret[1][i].duplicates = 0

\* the field a finding row points into: the text of the run's log, of its
\* display name or of its artifact; None when that field is absent
TargetField(i) ==
    LET rs == {r \in runs : r.id = i.run_id}
        ts == {t \in tags : t.id = i.tag_id}
    IN IF rs = {} \/ ts = {} THEN None
       ELSE FieldOf(DB, CHOOSE r \in rs : TRUE, i)

SamePairs(c, d) ==
    /\ Len(c) = Len(d)
    /\ \A k \in 1..Len(c) : c[k].name = d[k].name /\ c[k].pattern = d[k].pattern

\* the catalogs list the same (name, pattern, from) triples in the same order
SameTriples(c, d) ==
    /\ SamePairs(c, d)
    /\ \A k \in 1..Len(c) : c[k].from = d[k].from

\* the purge of outdated runs has run and left the parsed run and its
\* finding alone
NoInvalidation ==
    /\ outdated = 0
    /\ \A r \in runs : r.tag_schema # None
    /\ issues # {}

ExecutedAt(c) ==
    IF \E k \in 1..Len(executed) : executed[k] = c
    THEN CHOOSE k \in 1..Len(executed) : executed[k] = c
    ELSE 0

\* C14: the closures submitted through Database::call by concurrent tasks
\* are run by the one worker one at a time, in the order in which they were
\* enqueued; each caller receives the result of its own closure, and two
\* calls awaited in sequence by one caller take effect in that order
CallFifo ==
    /\ Len(executed) = received - (IF running = None THEN 0 ELSE 1)
    /\ \A k \in 1..Len(executed) : executed[k] = sent[k]
    /\ running # None => running[1] = sent[received]
    /\ \A t \in Tasks : \A k \in 1..Len(caller[t].got) :
          /\ caller[t].got[k].closure = Closure(t, k)
          /\ caller[t].got[k].value = ExecutedAt(Closure(t, k)) - 1
          /\ k > 1 => ExecutedAt(Closure(t, k - 1)) < ExecutedAt(Closure(t, k))

\* three tasks have each had two calls answered, and the first closure the
\* worker ran was not the first task's
CallFifoWitness ==
    /\ \A t \in Tasks : Len(caller[t].got) = MaxCalls
    /\ executed[1].task # "t1"
    /\ \E k \in 1..Len(sent) - 1 : sent[k].task = sent[k + 1].task

\* C15: the purges that run as one transaction (schema invalidation, the
\* blocklist purge of one job) are atomic: when a statement of the
\* transaction fails, the store is as it was before the call.  (Every
\* blocklist of the model names at most one job, so the call is one
\* transaction.)
TransactionsAtomic == [][pc' = "failed" => DB' = DB]_vars

\* without a failing statement the transactions are the purges of main
TransactionsComplete ==
    /\ pc = "invalid" =>
          InvalidTransaction(DB, DB, schema(cfg.catalog), 1, 0)
              = delete_all_invalid_by_tag_schema(DB, schema(cfg.catalog)).db
    /\ (pc = "blocklist" /\ Len(cfg.blocklist) = 1) =>
          BlocklistTransaction(DB, DB, cfg.blocklist[1], 1, 0)
              = delete_all_by_blocklist(DB, cfg.blocklist, 0).db

\* C16: at every moment at most 20 run-level HTTP requests and post-process
\* subprocesses are in flight; each of them runs only while holding a permit
\* of the 20-permit pool, and all 20 permits are free when the pull phase
\* ends
PermitDiscipline ==
    /\ Cardinality(in_flight) <= RATE_LIMIT
    /\ Cardinality(in_flight) <= RATE_LIMIT - permits
    /\ PullEnded => permits = RATE_LIMIT

\* urls of the runs the invocation is to pull: the cells of the last
\* last_n_history builds of the listed jobs that are not blocklisted
RunsToPull ==
    UNION {UNION {{RunUrl(j, n, c) : c \in Range(Cells(j, n))}
                  : n \in Range(Take(ServerBuilds(j), cfg.last_n_history))}
           : j \in Range(NotBlocked(pull_jobs, cfg.blocklist))}

\* C17: if pulling one run fails (a transport error on its full-build fetch
\* or a storage error on its upsert), every other run of the invocation is
\* still fetched and persisted: when the pull has ended, every run to pull
\* whose own pull did not fail is in the store
FailSlow ==
    PullEnded =>
        \A url \in RunsToPull :
            \/ \E k \in 1..Len(errors) : errors[k].url = url
            \/ /\ select_one_by_url(runs, url) # None
               /\ \E k \in 1..Len(pulled) : pulled[k].url = url

\* the pull has ended after a transport error and a storage error, and a run
\* was fetched and persisted after the first of them
FailSlowWitness ==
    /\ PullEnded
    /\ \E k \in 1..Len(errors) : errors[k].kind = "transport"
    /\ \E k \in 1..Len(errors) : errors[k].kind = "storage"
    /\ errors[1].after < Len(pulled)
    /\ \E r \in runs : r.url \in fetched

\* number of the Artifact rows of the run at url with the given path
ArtifactRows(url, path) ==
    Cardinality({a \in artifacts :
                   /\ a.path = path
                   /\ select_one_by_url(runs, url) = Some(a.run_id)})

\* C18: when a cache-miss pull of a run has completed, the store holds
\* exactly one Artifact row for each artifact of that run on the server
\* whose path matches an artifact-config regex, and none for a path that
\* matches none
ArtifactsStored ==
    \A k \in 1..Len(pulled) :
        pulled[k].url \in fetched =>
            \A path \in Range(FullBuild(pulled[k].url).artifacts) :
                ArtifactRows(pulled[k].url, path) =
                    (IF grep_matches(ArtifactConfig, path) # <<>> THEN 1 ELSE 0)

\* the multiset of the rows of a sequence
RowBag(rows) ==
    [x \in Range(rows) |-> Cardinality({k \in 1..Len(rows) : rows[k] = x})]

\* C19: for any expressions A, B and tag catalog C, eval_rows(!(A && B), C)
\* and eval_rows((!A) || (!B), C) are equal as multisets of rows, and
\* likewise eval_rows(!(A || B), C) and eval_rows((!A) && (!B), C)
DeMorgan ==
    ret # None =>
        /\ RowBag(ret[1].rows.not_and) = RowBag(ret[1].rows.or_nots)
        /\ RowBag(ret[1].rows.not_or) = RowBag(ret[1].rows.and_nots)

\* the negations of a conjunction and of a disjunction over generators have
\* been evaluated to rows
DeMorganWitness ==
    /\ ret # None
    /\ arg[1].a.op = "Or"
    /\ arg[1].a.l.op = "TagSet"
    /\ arg[1].b.op = "SeveritySet"
    /\ Len(ret[1].rows.not_and) >= 1
    /\ Len(ret[1].rows.not_or) >= 1
    /\ ret[1].rows.not_and[1].op = "Or"
    /\ ret[1].rows.not_or[1].op = "And"

\* the expression holds a TagSet or a SeveritySet generator
RECURSIVE HasGenerator(_)
HasGenerator(expr) ==
    IF expr.op = "Not" THEN HasGenerator(expr.e)
    ELSE IF expr.op \in {"And", "Or"} THEN HasGenerator(expr.l) \/ HasGenerator(expr.r)
    ELSE expr.op \in {"TagSet", "SeveritySet"}

\* C20: every row returned by eval_rows is built only from t/s leaves and
\* boolean connectives (no T or S generator survives anywhere in a row,
\* including under a negation), so to_sql_select never returns InvalidQuery
\* on a row eval_rows produces
RowsAreAtomic ==
    ret # None =>
        \A f \in DOMAIN ret[1].rows : \A k \in 1..Len(ret[1].rows[f]) :
            /\ ~ HasGenerator(ret[1].rows[f][k])
            /\ ret[1].sql[f][k] # None

\* an expression with a generator under a negation has been evaluated to
\* rows, among them one with a negated leaf
RowsAreAtomicWitness ==
    /\ ret # None
    /\ arg[1].a.op = "And"
    /\ arg[1].a.l.op = "TagSet"
    /\ arg[1].a.r.op = "Severity"
    /\ Len(ret[1].rows.not_e) >= 1
    /\ \E k \in 1..Len(ret[1].rows.not_e) :
          /\ ret[1].rows.not_e[k].op = "Or"
          /\ ret[1].rows.not_e[k].r.op = "Not"

\* the finding row id is one of a tag of severity metadata in the tags T
IsMetadataFinding(I, T, id) ==
    \E i \in I : i.id = id /\ \E t \in T : t.id = i.tag_id /\ t.severity = "Metadata"

\* C21: for any sequence of invocations and catalog edits, no
\* Similarity row references a Finding whose tag has severity metadata
MetadataNeverClustered ==
    \A s \in BagToSet(similarities) : ~ IsMetadataFinding(issues, tags, s.issue_id)

\* the rows the similarity engine stores are of findings whose tag is not
\* metadata at the time of the clustering
MetadataNotClustered ==
    [][\A s \in BagToSet(similarities') :
          (~ BagIn(s, similarities) \/ CopiesIn(s, similarities') > CopiesIn(s, similarities))
              => ~ IsMetadataFinding(issues', tags', s.issue_id)]_vars

\* the Finding rows (without their ids) the catalog of this invocation
\* yields from the stored display name, log and artifacts of the run r
FindingsFromStore(r) ==
    LET h == [run |-> RunRow(runs, r.id),
              artifacts |-> select_all_by_run(artifacts, r.id)]
        seq == CHOOSE q \in TaskIssueSeqs(cfg.catalog, tag_ids, h) : TRUE
    IN {into_issue_info(seq[k].issue, r, seq[k].artifact_id) : k \in 1..Len(seq)}

\* the Finding rows (without their ids) the store holds for the run r
FindingsStored(r) ==
    {[f \in DOMAIN i \ {"id"} |-> i[f]] : i \in {i \in issues : i.run_id = r.id}}

\* C22: at the end of the invocation that follows a change of the catalog
\* fingerprint, every run that was cached (nothing was requested for it)
\* has the findings the new catalog yields from its stored display name,
\* log and artifacts, and its tag_schema is the new fingerprint
ReparseFromCache ==
    (/\ pc = "done"
     /\ prev # None
     /\ schema(prev[1].cfg.catalog) # schema(cfg.catalog))
        => \A r \in runs :
              r.url \notin fetched =>
                  /\ r.tag_schema = Some(schema(cfg.catalog))
                  /\ FindingsStored(r) = FindingsFromStore(r)

\* C23: in every reachable store state, a Run whose log is non-null has
\* status failure, unstable or aborted
LogImpliesFailed ==
    \A r \in runs : r.log # None => r.status # None /\ r.status[1] \in Failed

\* the store holds an unstable run with its log, a run without status and
\* a failed run whose console request failed, all without violating C23
LogImpliesFailedWitness ==
    /\ \E r \in runs : r.status = Some("UNSTABLE") /\ r.log # None
    /\ \E r \in runs : r.status = None /\ r.log = None
    /\ \E r \in runs : r.status = Some("ABORTED") /\ r.log = None
                         /\ r.tag_schema # None

\* the last pull of an artifact ran the post-process command of its config
PostProcessed ==
    /\ arg # None
    /\ LET m == grep_matches(PostProcessConfig, arg[1].path)
       IN m # <<>> /\ m[1].post_process # None

\* C24: when the post-process command of an artifact cannot be spawned,
\* fails on I/O or exits with a nonzero status, the pull of the artifact
\* does not fail and the Artifact row is inserted with empty contents
PostProcessTolerated ==
    (/\ PostProcessed
     /\ \/ arg[1].outcome.kind # "exited"
        \/ arg[1].outcome.code # 0)
        => /\ ret[1].ok
           /\ ret[1].id # None
           /\ \E a \in artifacts :
                 /\ a.id = ret[1].id[1]
                 /\ a.path = arg[1].path
                 /\ a.contents = <<>>

\* C25: the tag_schema of a Run changes only from null to the current
\* fingerprint, or from a non-null value other than the current fingerprint
\* to null in a step that leaves no finding of the run; it never moves from
\* one non-null value to another
TagSchemaLifecycle ==
    [][\A r \in runs : \A q \in runs' :
          (q.id = r.id /\ q.url = r.url /\ q.tag_schema # r.tag_schema) =>
              \/ /\ r.tag_schema = None
                 /\ q.tag_schema = Some(schema(cfg.catalog))
              \/ /\ r.tag_schema # None
                 /\ r.tag_schema # Some(schema(cfg.catalog))
                 /\ q.tag_schema = None
                 /\ \A i \in issues' : i.run_id # r.id]_vars

\* an invocation has reset a run that had findings under another
\* fingerprint and has then stamped it with the current one
TagSchemaLifecycleWitness ==
    /\ pc = "done"
    /\ outdated > 0
    /\ prev # None
    /\ prev[1].counts.issues > 0
    /\ \E r \in runs : /\ r.url \notin fetched
                         /\ r.tag_schema = Some(schema(cfg.catalog))

\* C26: a Build is upserted only under a Job whose upsert has completed, a
\* Run is inserted only under a Build whose upsert has completed, and a
\* Finding is inserted only for a Run whose upsert has completed
ParentsFirst ==
    [][/\ \A b \in builds' \ builds : \E j \in jobs : j.id = b.job_id
       /\ \A r \in runs' :
             (\A q \in runs : q.id # r.id) => \E b \in builds : b.id = r.build_id
       /\ \A i \in issues' \ issues : \E r \in runs : r.id = i.run_id]_vars

\* the parser has inserted a finding of a run that was fetched in this
\* invocation, under a build and a job upserted in this invocation
ParentsFirstWitness ==
    /\ pc = "parse"
    /\ \E i \in issues : \E r \in runs : \E b \in builds : \E j \in jobs :
          /\ i.run_id = r.id
          /\ r.url \in fetched
          /\ r.build_id = b.id
          /\ b.job_id = j.id

\* C27: the parse phase inserts Finding rows only for emitted runs whose
\* tag_schema is null; when it starts it inserts nothing for the runs with
\* a non-null tag_schema and takes as clustering input only their stored
\* findings of tags that are not metadata
ParseOnlyUntagged ==
    [][/\ \A i \in issues' \ issues :
             \E k \in 1..Len(pulled) : /\ pulled[k].id = i.run_id
                                        /\ pulled[k].tag_schema = None
                                        /\ RunRow(runs, i.run_id).tag_schema = None
       /\ (pc = "pull" /\ pc' = "parse") =>
             /\ issues' = issues
             /\ \A n \in 1..Len(inserted_issues') :
                   \E i \in issues : \E k \in 1..Len(pulled) :
                       /\ i.id = inserted_issues'[n].id
                       /\ i.run_id = pulled[k].id
                       /\ pulled[k].tag_schema # None
                       /\ ~ IsMetadataFinding(issues, tags, i.id)]_vars

\* the parser has inserted a finding for an emitted run without tag_schema
\* while an emitted run with a tag_schema has a stored metadata finding and
\* a stored finding that went into the clustering input
ParseOnlyUntaggedWitness ==
    /\ pc = "parse"
    /\ \E i \in issues : RunRow(runs, i.run_id).tag_schema = None
    /\ \E k \in 1..Len(pulled) :
          /\ pulled[k].tag_schema # None
          /\ \E i \in issues : /\ i.run_id = pulled[k].id
                                 /\ IsMetadataFinding(issues, tags, i.id)
          /\ \E i \in issues : /\ i.run_id = pulled[k].id
                                 /\ \E n \in 1..Len(inserted_issues) :
                                       inserted_issues[n].id = i.id

\* the build b of the store D is older than the last build of its job
OlderThanLast(D, b) ==
    \E j \in D.jobs : j.id = b.job_id /\ j.last_build # None
                                      /\ b.number < j.last_build[1]

\* the run with id rid of the store D is under a build older than the last
UnderOlder(D, rid) ==
    \E r \in D.runs : \E b \in D.builds :
        r.id = rid /\ b.id = r.build_id /\ OlderThanLast(D, b)

\* C28: the orphan-build purge leaves no Build with a number below its
\* job's last_build, nor any Run, Artifact, Finding or Similarity under
\* such a build, and leaves every other Build, Run, Artifact and Finding
\* as it was
OrphanPurgeEffect ==
    [][(pc = "orphan" /\ pc' = "orphan_tags") =>
          /\ jobs' = jobs
          /\ builds' = {b \in builds : ~ OlderThanLast(DB, b)}
          /\ runs' = {r \in runs : ~ UnderOlder(DB, r.id)}
          /\ artifacts' = {a \in artifacts : ~ UnderOlder(DB, a.run_id)}
          /\ issues' = {i \in issues : ~ UnderOlder(DB, i.run_id)}
          /\ \A s \in BagToSet(similarities') :
                \A i \in issues : i.id = s.issue_id => ~ UnderOlder(DB, i.run_id)
          /\ \A s \in BagToSet(similarities') :
                CopiesIn(s, similarities') = CopiesIn(s, similarities)]_vars

\* the purge has removed an emitted run with its findings and similarity
\* rows and has kept a build with a run and a finding
OrphanPurgeEffectWitness ==
    /\ pc = "orphan_tags"
    /\ \E k \in 1..Len(pulled) : \A r \in runs : r.id # pulled[k].id
    /\ prev # None
    /\ prev[1].counts.similarities > BagCardinality(similarities)
    /\ \E i \in issues : \E r \in runs : \E b \in builds :
          i.run_id = r.id /\ r.build_id = b.id

\* C29: after every invocation each Job has at most last_n_history Build
\* rows in the store
BoundedHistory ==
    pc = "done" =>
        \A j \in jobs :
            Cardinality({b \in builds : b.job_id = j.id}) <= cfg.last_n_history

\* the Similarity rows that the grouping gs stores in an empty table
StoredRows(gs) ==
    calculate_similarities(EmptyBag, [k \in 1..Len(gs) |-> SortGroup(gs[k])])

\* C30: the similarity groups and hashes stored for the findings handed to
\* the similarity engine do not depend on task scheduling: every order in
\* which the group tasks can report yields the same rows
SchedulingIndependent ==
    pc = "cluster" =>
        \A g1, g2 \in Cluster(<<>>, inserted_issues) : StoredRows(g1) = StoredRows(g2)

\* a row for every pair of a row of ls and a row of rs, left rows first
Pairs(ls, rs, op) ==
    Flatten([i \in 1..Len(ls) |->
               [j \in 1..Len(rs) |-> [op |-> op, l |-> ls[i], r |-> rs[j]]]])

\* the names of the tags of the store that the generator g stands for
Members(g) ==
    {t.name : t \in {t \in tags : IF g.op = "TagSet" THEN is_match(g.p, t.name)
                                   ELSE t.severity = g.s}}

\* C31: eval_rows(A && B, C) and eval_rows(A || B, C) hold one row for each
\* pair of a row of A and a row of B and no other, |A| x |B| rows in all;
\* a generator alone yields one leaf row per catalog tag it stands for
CartesianRows ==
    ret # None =>
        LET r == ret[1].rows
        IN /\ Len(r.and) = Len(r.a) * Len(r.b)
           /\ Len(r.or) = Len(r.a) * Len(r.b)
           /\ RowBag(r.and) = RowBag(Pairs(r.a, r.b, "And"))
           /\ RowBag(r.or) = RowBag(Pairs(r.a, r.b, "Or"))
           /\ arg[1].a.op \in {"TagSet", "SeveritySet"} =>
                 /\ Len(r.a) = Cardinality(Members(arg[1].a))
                 /\ \A n \in Members(arg[1].a) :
                       \E k \in 1..Len(r.a) : r.a[k] = TagOf(n)

\* a view over two generators of two tags each gave four rows
CartesianRowsWitness ==
    /\ ret # None
    /\ arg[1].a.op = "TagSet"
    /\ Len(ret[1].rows.a) = 2
    /\ Len(ret[1].rows.b) = 2
    /\ Len(ret[1].rows.and) = 4

\* the row e read as a statement about the run: t"p" is "some finding of
\* the run has a tag whose name matches p", s"x" is "some finding of the
\* run has a tag of severity x"
RECURSIVE Holds(_, _)
Holds(e, run_id) ==
    IF e.op = "Not" THEN ~ Holds(e.e, run_id)
    ELSE IF e.op = "And" THEN Holds(e.l, run_id) /\ Holds(e.r, run_id)
    ELSE IF e.op = "Or" THEN Holds(e.l, run_id) \/ Holds(e.r, run_id)
    ELSE IF e.op = "Tag"
    THEN \E i \in issues : /\ i.run_id = run_id
                            /\ is_match(e.p, TagRow(tags, i.tag_id).name)
    ELSE IF e.op = "Severity"
    THEN \E i \in issues : /\ i.run_id = run_id
                            /\ TagRow(tags, i.tag_id).severity = e.s
    ELSE FALSE

\* C32: for every row produced by eval_rows, the compiled SELECT returns
\* the ids of exactly the runs of which the row, read as a boolean
\* statement about the findings of the run, is true
SelectSemantics ==
    ret # None =>
        \A f \in DOMAIN ret[1].rows : \A k \in 1..Len(ret[1].rows[f]) :
            ret[1].ids[f][k] =
                Some({r.id : r \in {r \in runs : Holds(ret[1].rows[f][k], r.id)}})

\* a conjunction row with a negated leaf selected one run out of two
SelectSemanticsWitness ==
    /\ ret # None
    /\ \E k \in 1..Len(ret[1].rows.and) :
          /\ ret[1].rows.and[k].r.op = "Not"
          /\ ret[1].rows.and[k].l.op = "Tag"
          /\ \E id \in {r.id : r \in runs} : ret[1].ids.and[k] = Some({id})

\* C38: the row that eval_rows generates from a T or S generator for the
\* catalog tag X selects exactly the runs that have a finding tagged X
GeneratorRowsExact ==
    (ret # None /\ arg[1].a.op \in {"TagSet", "SeveritySet"}) =>
        \A k \in 1..Len(ret[1].rows.a) :
            \A X \in tags :
                ret[1].rows.a[k] = TagOf(X.name) =>
                    ret[1].ids.a[k] =
                        Some({r.id : r \in {r \in runs :
                                \E i \in issues : i.run_id = r.id /\ i.tag_id = X.id}})

\* the grammar of the precedence ! > && > ||, both binary operators
\* associating to the left:
\*   or ::= and ("||" and)*    and ::= unary ("&&" unary)*
\*   unary ::= "!" unary | "(" or ")" | atom
RECURSIVE GrammarOr(_, _)
RECURSIVE GrammarOrTail(_, _, _)
RECURSIVE GrammarAnd(_, _)
RECURSIVE GrammarAndTail(_, _, _)
RECURSIVE GrammarUnary(_, _)
GrammarOr(toks, pos) ==
    LET l == GrammarAnd(toks, pos)
    IN IF l = None THEN None ELSE GrammarOrTail(toks, l[1].e, l[1].pos)

GrammarOrTail(toks, lhs, pos) ==
    IF pos > Len(toks) THEN Some([e |-> lhs, pos |-> pos])
    ELSE IF toks[pos] # "||" THEN Some([e |-> lhs, pos |-> pos])
    ELSE LET r == GrammarAnd(toks, pos + 1)
         IN IF r = None THEN None
            ELSE GrammarOrTail(toks, Or(lhs, r[1].e), r[1].pos)

GrammarAnd(toks, pos) ==
    LET l == GrammarUnary(toks, pos)
    IN IF l = None THEN None ELSE GrammarAndTail(toks, l[1].e, l[1].pos)

GrammarAndTail(toks, lhs, pos) ==
    IF pos > Len(toks) THEN Some([e |-> lhs, pos |-> pos])
    ELSE IF toks[pos] # "&&" THEN Some([e |-> lhs, pos |-> pos])
    ELSE LET r == GrammarUnary(toks, pos + 1)
         IN IF r = None THEN None
            ELSE GrammarAndTail(toks, And(lhs, r[1].e), r[1].pos)

GrammarUnary(toks, pos) ==
    IF pos > Len(toks) THEN None
    ELSE IF toks[pos] = "!"
    THEN LET r == GrammarUnary(toks, pos + 1)
         IN IF r = None THEN None ELSE Some([e |-> Not(r[1].e), pos |-> r[1].pos])
    ELSE IF toks[pos] = "("
    THEN LET r == GrammarOr(toks, pos + 1)
         IN IF r = None THEN None
            ELSE IF r[1].pos > Len(toks) THEN None
            ELSE IF toks[r[1].pos] # ")" THEN None
            ELSE Some([e |-> r[1].e, pos |-> r[1].pos + 1])
    ELSE IF toks[pos] \in AtomTokens
    THEN Some([e |-> TagOf(<<toks[pos]>>), pos |-> pos + 1])
    ELSE None

\* the expression the grammar gives the whole input, None for an input
\* that is not a sentence
GrammarParse(toks) ==
    LET r == GrammarOr(toks, 1)
    IN IF r = None THEN None
       ELSE IF r[1].pos # Len(toks) + 1 THEN None
       ELSE Some(r[1].e)

\* C33: TagExpr::parse gives ! higher precedence than &&, and && higher
\* than ||, both binary operators associate to the left and parentheses
\* override both: the result is the expression of the precedence grammar,
\* and a || b && !a is Or(a, And(b, Not(a)))
ParsePrecedence ==
    ret # None =>
        /\ ret[1] = GrammarParse(arg[1])
        /\ arg[1] = <<"a", "||", "b", "&&", "!", "a">> =>
              ret[1] = Some(Or(TagOf(<<"a">>),
                               And(TagOf(<<"b">>), Not(TagOf(<<"a">>)))))
        /\ arg[1] = <<"a", "&&", "b", "&&", "a">> =>
              ret[1] = Some(And(And(TagOf(<<"a">>), TagOf(<<"b">>)), TagOf(<<"a">>)))
        /\ arg[1] = <<"a", "&&", "(", "b", "||", "a", ")">> =>
              ret[1] = Some(And(TagOf(<<"a">>), Or(TagOf(<<"b">>), TagOf(<<"a">>))))

\* a || b && !a has been parsed
ParsePrecedenceWitness ==
    /\ arg = Some(<<"a", "||", "b", "&&", "!", "a">>)
    /\ ret # None
    /\ ret[1] # None
    /\ ret[1][1].op = "Or"

\* the bytes of a string
Bytes(s) == Flatten([k \in 1..Len(s) |-> utf8(s[k])])

\* the Levenshtein distance of two byte sequences by the full matrix, one
\* row after the other: row i holds the distances of x[1..i] to every
\* prefix of y
RECURSIVE EditRowFill(_, _, _, _, _)
EditRowFill(prev_row, cur, c, y, j) ==
    IF j > Len(y) THEN cur
    ELSE EditRowFill(prev_row,
                     Append(cur, Min2(Min2(prev_row[j + 1] + 1, cur[j] + 1),
                                      prev_row[j] + (IF c = y[j] THEN 0 ELSE 1))),
                     c, y, j + 1)

RECURSIVE EditRows(_, _, _, _)
EditRows(row, x, y, i) ==
    IF i > Len(x) THEN row
    ELSE EditRows(EditRowFill(row, <<row[1] + 1>>, x[i], y, 1), x, y, i + 1)

EditDistance(x, y) == EditRows([k \in 1..(Len(y) + 1) |-> k - 1], x, y, 1)[Len(y) + 1]

\* C34: levenshtein_distance(a, b) is the Levenshtein distance of the bytes
\* of a and b; it is 0 exactly when a = b, it is symmetric, and it is the
\* byte length of the other string when one of the two is empty.
LevenshteinByteLevel ==
    ret # None =>
        LET a == arg[1].a
            b == arg[1].b
        IN /\ ret[1] = EditDistance(Bytes(a), Bytes(b))
           /\ (ret[1] = 0) <=> (a = b)
           /\ ret[1] = levenshtein_distance(b, a)
           /\ a = <<>> => ret[1] = Len(Bytes(b))
           /\ b = <<>> => ret[1] = Len(Bytes(a))

\* C34, on strings of one-byte characters only: there the bytes and the
\* characters of a string coincide and the distance is the standard one.
LevenshteinAscii ==
    (ret # None /\ str_len(arg[1].a) = Len(arg[1].a)
                /\ str_len(arg[1].b) = Len(arg[1].b)) =>
        LET a == arg[1].a
            b == arg[1].b
        IN /\ ret[1] = EditDistance(Bytes(a), Bytes(b))
           /\ (ret[1] = 0) <=> (a = b)
           /\ ret[1] = levenshtein_distance(b, a)
           /\ a = <<>> => ret[1] = Len(b)
           /\ b = <<>> => ret[1] = Len(a)

\* C35: the answer to the console-log request of a failed run, error or
\* not, produces no Err item and stops no stream: the pull of the run goes
\* on to its upsert, with log None after an error; and the upsert of a
\* failed run whose log is None stores the run with log null and emits it.
ConsoleFailureTolerated ==
    [][/\ (pulling # None /\ pulling[1].step = "get_console" /\ pulling' # pulling) =>
             /\ errors' = errors
             /\ pulled' = pulled
             /\ <<jobQueue, buildStreams, runStreams>>' =
                    <<jobQueue, buildStreams, runStreams>>
             /\ pulling' \in {Some([pulling[1] EXCEPT !.step = "upsert", !.log = l]) :
                                l \in {None, Some(Console(pulling[1].url))}}
       /\ (/\ pulling # None
           /\ pulling[1].step = "upsert"
           /\ pulling[1].log = None
           /\ FullBuild(pulling[1].url).result[1] \in Failed
           /\ runs' # runs) =>
             /\ \E r \in runs' :
                   /\ r.url = pulling[1].url
                   /\ r.log = None
                   /\ r.status = FullBuild(pulling[1].url).result
                   /\ pulled' = Append(pulled, r)
             /\ errors' = errors
             /\ runStreams' = runStreams
      ]_vars

\* no pull has failed, a failed run whose console request failed is stored
\* with log null, and a run polled after it was fetched and stored
ConsoleFailureWitness ==
    /\ errors = <<>>
    /\ \E k, l \in 1..Len(pulled) :
          /\ k < l
          /\ pulled[k].url \in fetched
          /\ FullBuild(pulled[k].url).result[1] \in Failed
          /\ pulled[k].log = None
          /\ pulled[k] \in runs
          /\ pulled[l].url \in fetched
          /\ pulled[l] \in runs

\* every result a task has received is the result of its own closure, in
\* the order of its calls, and every channel holds the result of the
\* closure sent with it
OwnResults ==
    /\ \A t \in Tasks : \A i \in 1..Len(caller[t].got) :
          /\ caller[t].got[i].closure.task = t
          /\ caller[t].got[i].closure.k = i
    /\ \A m \in 1..Len(oneshot) :
          oneshot[m] # None => oneshot[m][1].closure = sent[m]

\* Database::open returns an error exactly when opening the connection or a
\* create_table failed, and then no task ever holds a handle: no closure of
\* a task is sent
OpenerGetsError ==
    /\ ret.out # None =>
          (ret.out = Some("Err") <=> (~ arg[1].open \/ arg[1].create # 0))
    /\ ret.out # Some("Ok") => \A m \in 1..Len(sent) : sent[m].task = Opener
    /\ ~ arg[1].open => sent = <<>>

\* C36: the result of a closure, an error included, is delivered to the
\* task that submitted the closure and to no other; the worker goes on to
\* execute every closure submitted after one that returned an error; an
\* error while opening the store is returned to the opener, which obtains no
\* handle.
CallErrorsDelivered ==
    /\ [](OwnResults /\ OpenerGetsError)
    /\ <>[](executed = sent /\ running = None)
    /\ <>(ret.out # None)

\* a task's closure returned an error, the error was delivered to that task,
\* and a closure submitted after it was executed
CallErrorsDeliveredWitness ==
    \E m, n \in 1..Len(executed) :
        /\ m < n
        /\ executed[m].fails
        /\ executed[m].task \in OpenTasks
        /\ Len(caller[executed[m].task].got) >= executed[m].k
        /\ ResultOf(caller[executed[m].task].got[executed[m].k]) = "Err"
        /\ oneshot[n] # None

\* C37: for every run, no two Finding rows share tag_id, artifact_id and
\* snippet range, whatever invocations came before, those whose parse phase
\* returned an error included.
NoDuplicateFindings ==
    \A i, j \in issues :
        (/\ i.run_id = j.run_id
         /\ i.tag_id = j.tag_id
         /\ i.artifact_id = j.artifact_id
         /\ i.snippet_start = j.snippet_start
         /\ i.snippet_end = j.snippet_end) => i.id = j.id

\* C39: when the pull has finished and no run has tag_schema null, main goes
\* straight to its end, and from there to the end of the invocation no row
\* of the store is inserted, deleted or changed: the parser, the orphan-build
\* purge, the orphan-tag collection and the clustering are skipped together.
SkippedTogether ==
    [][/\ (/\ pc = "pull"
           /\ PullFinished
           /\ \A r \in runs : r.tag_schema # None
           /\ pc' # pc) => (pc' = "done" /\ DB' = DB /\ parseVars' = parseVars)
       /\ (pc = "done" /\ \A r \in runs : r.tag_schema # None) =>
             (DB' = DB /\ pc' \in {"done", "idle"})
      ]_vars

\* a second invocation with the configuration and the server of the first
\* has come to its end over a store whose runs all carry a fingerprint, with
\* runs emitted by the pull and findings in the store
SkippedTogetherWitness ==
    /\ pc = "done"
    /\ prev # None
    /\ prev[1].cfg = cfg
    /\ prev[1].listed = listed
    /\ prev[1].latest = latest
    /\ prev[1].counts = RowCounts(DB)
    /\ pulled # <<>>
    /\ issues # {}
    /\ \A r \in runs : r.tag_schema # None
    /\ inserted_issues = <<>>

\* the rows of D that belong to a job other than J, by their parents
OtherJobs(D, J) ==
    LET js == {j \in D.jobs : j.name # J}
        bs == {b \in D.builds : \E j \in js : j.id = b.job_id}
        rs == {r \in D.runs : \E b \in bs : b.id = r.build_id}
    IN [jobs |-> js, builds |-> bs, runs |-> rs,
        artifacts |-> {a \in D.artifacts : \E r \in rs : r.id = a.run_id},
        issues |-> {i \in D.issues : \E r \in rs : r.id = i.run_id}]

\* ids of the findings of D below the job named J, by their parents
FindingsUnder(D, J) ==
    {i.id : i \in {i \in D.issues :
                     \E r \in D.runs, b \in D.builds, j \in D.jobs :
                         /\ r.id = i.run_id
                         /\ b.id = r.build_id
                         /\ j.id = b.job_id
                         /\ j.name = J}}

\* the store after the blocklist purge of the one job J
PurgedOf(J) == delete_all_by_blocklist(DB, <<J>>, 0).db

\* C40: the blocklist purge of a job J, on any store the program reaches,
\* leaves the Job, Build, Run, Artifact and Finding rows of every other job
\* as they are, adds no row, and removes a Similarity row only if the group
\* of its hash holds a finding under J.
BlocklistFrame ==
    \A J \in JobNames :
        LET D2 == PurgedOf(J)
        IN /\ OtherJobs(D2, J) = OtherJobs(DB, J)
           /\ D2.jobs \subseteq jobs
           /\ D2.builds \subseteq builds
           /\ D2.runs \subseteq runs
           /\ D2.artifacts \subseteq artifacts
           /\ D2.issues \subseteq issues
           /\ D2.tags = tags
           /\ \A s \in BagToSet(similarities) :
                 \/ /\ BagIn(s, D2.similarities)
                    /\ CopiesIn(s, D2.similarities) = CopiesIn(s, similarities)
                 \/ /\ ~ BagIn(s, D2.similarities)
                    /\ \E s2 \in BagToSet(similarities) :
                          /\ s2.similarity_hash = s.similarity_hash
                          /\ s2.issue_id \in FindingsUnder(DB, J)
           /\ BagToSet(D2.similarities) \subseteq BagToSet(similarities)

\* the purge of a job removes rows of that job and a similarity row of a
\* finding of another job, while the other job keeps findings
BlocklistFrameWitness ==
    \E J \in JobNames :
        LET D2 == PurgedOf(J)
        IN /\ D2.jobs # jobs
           /\ D2.issues # issues
           /\ OtherJobs(DB, J).issues # {}
           /\ \E s \in BagToSet(similarities) :
                 /\ s.issue_id \in {i.id : i \in OtherJobs(DB, J).issues}
                 /\ ~ BagIn(s, D2.similarities)

====
